---- MODULE Spec2Model ----
(***************************************************************************)
(* Model of the rankings page of elite-cheer-stats                         *)
(* (src/app/rankings/page.tsx, the second RankingsPage, lines 378-957).    *)
(*                                                                         *)
(* Strings are sequences of one-character strings, so that trim,           *)
(* lower-casing, substring search and concatenation are computed as the    *)
(* code computes them.  A result row is a function from the column names   *)
(* it carries to their values; a column that is null or undefined is       *)
(* simply not in the row's DOMAIN.  Every column value is held in its      *)
(* String(v) form (the number 94 as "94", the boolean true as "true").     *)
(* Scores are whole numbers (points scaled by ten).                        *)
(***************************************************************************)
EXTENDS Integers, Sequences, FiniteSets, TLC

VARIABLES filters, rows, loading, error, reqs, arrivals,
          teamSearch, gate, route, explorer

vars == <<filters, rows, loading, error, reqs, arrivals,
          teamSearch, gate, route, explorer>>

\* The state of the rankings page, and the state of the other pages and of
\* the API route.
rankingsVars == <<filters, rows, loading, error, reqs, arrivals>>
otherVars == <<teamSearch, gate, route, explorer>>

\* ------------------------------------------------------------ bounds
\* The most rows a loaded result set holds.
MaxRows == 3
\* The most fetches the page issues (the first one on mount included).
MaxReq == 3

\* Rows of a result set drawn from the identity variants, and from the
\* division variants.
MaxIdRows == 2

MaxParseRows == 1

\* Teams of the result sets that fill the chart and the table.
MaxTeams == 22
MaxFlagRows == 3
MaxRuns == 3
MaxHitRows == 3

\* ------------------------------------------------------------ strings
\* JS null / undefined: a value no character sequence equals.
Null == <<"null">>

UpperAlpha ==
    <<"A","B","C","D","E","F","G","H","I","J","K","L","M",
      "N","O","P","Q","R","S","T","U","V","W","X","Y","Z">>

LowerAlpha ==
    <<"a","b","c","d","e","f","g","h","i","j","k","l","m",
      "n","o","p","q","r","s","t","u","v","w","x","y","z">>

Digits == <<"0","1","2","3","4","5","6","7","8","9">>

IndexIn(c, alphabet) ==
    IF \E i \in 1..Len(alphabet) : alphabet[i] = c
    THEN CHOOSE i \in 1..Len(alphabet) : alphabet[i] = c
    ELSE 0

Range(alphabet) == {alphabet[i] : i \in 1..Len(alphabet)}

IsWs(c) == c \in {" ", "\t", "\n"}

DigitChars == Range(Digits)

IsDigit(c) == c \in DigitChars

\* \w of a JS regular expression.
WordChars == Range(UpperAlpha) \cup Range(LowerAlpha) \cup DigitChars \cup {"_"}

IsWordChar(c) == c \in WordChars

LowerOf == [c \in Range(UpperAlpha) |-> LowerAlpha[IndexIn(c, UpperAlpha)]]

UpperOf == [c \in Range(LowerAlpha) |-> UpperAlpha[IndexIn(c, LowerAlpha)]]

toLowerChar(c) == IF c \in DOMAIN LowerOf THEN LowerOf[c] ELSE c

toUpperChar(c) == IF c \in DOMAIN UpperOf THEN UpperOf[c] ELSE c

RECURSIVE toLowerCase(_)
toLowerCase(s) ==
    IF s = <<>> THEN <<>> ELSE <<toLowerChar(Head(s))>> \o toLowerCase(Tail(s))

RECURSIVE TrimStart(_)
TrimStart(s) ==
    IF s # <<>> /\ IsWs(Head(s)) THEN TrimStart(Tail(s)) ELSE s

RECURSIVE TrimEnd(_)
TrimEnd(s) ==
    IF s # <<>> /\ IsWs(s[Len(s)]) THEN TrimEnd(SubSeq(s, 1, Len(s) - 1)) ELSE s

trim(s) == TrimEnd(TrimStart(s))

\* s.replace(/\s+/g, " ")
RECURSIVE CollapseWs(_)
CollapseWs(s) ==
    IF s = <<>> THEN <<>>
    ELSE IF IsWs(Head(s)) THEN <<" ">> \o CollapseWs(TrimStart(s))
    ELSE <<Head(s)>> \o CollapseWs(Tail(s))

\* s.replace(/-/g, " ")
RECURSIVE HyphensToSpaces(_)
HyphensToSpaces(s) ==
    IF s = <<>> THEN <<>>
    ELSE <<IF Head(s) = "-" THEN " " ELSE Head(s)>> \o HyphensToSpaces(Tail(s))

\* s.includes(sub)
includes(s, sub) ==
    \E i \in 0..(Len(s) - Len(sub)) : SubSeq(s, i + 1, i + Len(sub)) = sub

\* String(v ?? "")
Str(v) == IF v = Null THEN <<>> ELSE v

\* Truthiness of a string-or-null value.
Truthy(v) == v # Null /\ v # <<>>

\* parts.join(" ")
RECURSIVE join(_)
join(parts) ==
    IF parts = <<>> THEN <<>>
    ELSE IF Len(parts) = 1 THEN parts[1]
    ELSE parts[1] \o <<" ">> \o join(Tail(parts))

\* Code-unit order of the characters used in dates and names.
CharOrder ==
    <<" ", "-", ".", "/", ":">> \o Digits \o UpperAlpha \o <<"_">> \o LowerAlpha

CharRank == [c \in Range(CharOrder) |-> IndexIn(c, CharOrder)]

\* a.localeCompare(b) on the characters of CharOrder: -1, 0 or 1.
RECURSIVE localeCompare(_, _)
localeCompare(a, b) ==
    IF a = <<>> /\ b = <<>> THEN 0
    ELSE IF a = <<>> THEN -1
    ELSE IF b = <<>> THEN 1
    ELSE IF Head(a) = Head(b) THEN localeCompare(Tail(a), Tail(b))
    ELSE IF CharRank[Head(a)] < CharRank[Head(b)] THEN -1
    ELSE 1

\* ------------------------------------------------------------ numbers
\* Number(v) for the numerals of the model: optional surrounding white
\* space, an optional minus sign and decimal digits; the empty string is 0;
\* anything else ("abc", "NaN", "Infinity") is not a finite number.
IsNumeral(t) ==
    \/ t = <<>>
    \/ /\ \A i \in 1..Len(t) : IsDigit(t[i])
    \/ /\ Len(t) >= 2
       /\ t[1] = "-"
       /\ \A i \in 2..Len(t) : IsDigit(t[i])

DigitValue == [c \in DigitChars |-> IndexIn(c, Digits) - 1]

RECURSIVE DigitsValue(_)
DigitsValue(t) ==
    IF t = <<>> THEN 0
    ELSE 10 * DigitsValue(SubSeq(t, 1, Len(t) - 1)) + DigitValue[t[Len(t)]]

NumberIsFinite(v) == v # Null /\ IsNumeral(trim(v))

NumberValue(v) ==
    LET t == trim(v)
    IN  IF t # <<>> /\ t[1] = "-" THEN 0 - DigitsValue(Tail(t)) ELSE DigitsValue(t)

\* ------------------------------------------------------------ field resolver
\* row[key], undefined when the row does not carry the column.
Get(row, key) == IF key \in DOMAIN row THEN row[key] ELSE Null

\* Mutant of pick: the last usable candidate wins.
RECURSIVE pickLastUsable(_, _, _)
pickLastUsable(row, candidates, fallback) ==
    IF candidates = <<>> THEN fallback
    ELSE LET v == Get(row, candidates[Len(candidates)])
         IN  IF v # Null /\ trim(v) # <<>> THEN v
             ELSE pickLastUsable(row, SubSeq(candidates, 1, Len(candidates) - 1),
                                 fallback)

\* pick(row, candidates, fallback): the first candidate column whose value is
\* present, non-null and non-blank after trimming; else the fallback.
RECURSIVE pick(_, _, _)
pick(row, candidates, fallback) ==
    IF candidates = <<>> THEN fallback
    ELSE LET v == Get(row, Head(candidates))
         IN  IF v # Null /\ trim(v) # <<>> THEN v
             ELSE pick(row, Tail(candidates), fallback)

\* toNum of the rankings page: a value that is not a finite number becomes 0.
toNum(v) == IF NumberIsFinite(v) THEN NumberValue(v) ELSE 0

normalize(s) == CollapseWs(toLowerCase(trim(Str(s))))

\* t.replace(/\b\w/g, m => m.toUpperCase()): a word character at the start
\* or after a non-word character is upper-cased.
RECURSIVE upperWordStarts(_, _)
upperWordStarts(t, atBoundary) ==
    IF t = <<>> THEN <<>>
    ELSE <<IF atBoundary /\ IsWordChar(Head(t)) THEN toUpperChar(Head(t)) ELSE Head(t)>>
         \o upperWordStarts(Tail(t), ~IsWordChar(Head(t)))

titleCase(s) == upperWordStarts(normalize(s), TRUE)

programKeys == <<"program", "program_name", "gym", "gym_name">>
teamKeys == <<"team", "team_name">>
eventScoreKeys == <<"event_score", "event_total", "total_score", "score">>
eventNameKeys ==
    <<"event_name", "event", "event_title", "competition_name", "competition",
      "event_display_name">>
eventIdKeys == <<"event_id", "eventId", "competition_id">>
weekendKeys == <<"weekend_date", "weekend">>
sourceUrlKeys == <<"source_url", "sourceUrl", "url">>

\* ------------------------------------------------------------ parsing helpers
\* /^\s*L\s*([1-7])\b/i
inferLevelFromDivision(divisionRaw) ==
    LET d == TrimStart(Str(divisionRaw))
    IN  IF d = <<>> \/ toLowerChar(d[1]) # "l" THEN Null
        ELSE LET e == TrimStart(Tail(d))
             IN  IF /\ e # <<>>
                    /\ e[1] \in {"1","2","3","4","5","6","7"}
                    /\ (Len(e) = 1 \/ ~IsWordChar(e[2]))
                 THEN <<"L", e[1]>>
                 ELSE Null

AgeCandidates ==
    << <<<<"t","i","n","y">>, <<"T","i","n","y">>>>, <<<<"m","i","n","i">>, <<"M","i","n","i">>>>, <<<<"y","o","u","t","h">>, <<"Y","o","u","t","h">>>>,
       <<<<"j","u","n","i","o","r">>, <<"J","u","n","i","o","r">>>>, <<<<"s","e","n","i","o","r">>, <<"S","e","n","i","o","r">>>>, <<<<"u","1","6">>, <<"U","1","6">>>>,
       <<<<"u","1","8">>, <<"U","1","8">>>>, <<<<"o","p","e","n">>, <<"O","p","e","n">>>> >>

inferAgeFromDivision(divisionRaw) ==
    LET d == normalize(divisionRaw)
        hits == {i \in 1..Len(AgeCandidates) : includes(d, AgeCandidates[i][1])}
    IN  IF hits = {} THEN Null
        ELSE AgeCandidates[CHOOSE i \in hits : \A j \in hits : i <= j][2]

cleanSizeAny(v) ==
    LET s0 == normalize(v)
        s == trim(CollapseWs(HyphensToSpaces(s0)))
    IN  IF s0 = <<>> THEN Null
        ELSE IF s = <<"x"," ","s","m","a","l","l">> \/ s = <<"x","s","m","a","l","l">> THEN <<"X","-","S","m","a","l","l">>
        ELSE IF s = <<"s","m","a","l","l">> THEN <<"S","m","a","l","l">>
        ELSE IF s = <<"m","e","d","i","u","m">> THEN <<"M","e","d","i","u","m">>
        ELSE IF s = <<"l","a","r","g","e">> THEN <<"L","a","r","g","e">>
        ELSE IF s = <<"x"," ","l","a","r","g","e">> \/ s = <<"x","l","a","r","g","e">> THEN <<"X","-","L","a","r","g","e">>
        ELSE Null

inferSizeFromDivision(divisionRaw) ==
    LET d == normalize(divisionRaw)
    IN  IF includes(d, <<"x","-","s","m","a","l","l">>) \/ includes(d, <<"x"," ","s","m","a","l","l">>) \/ includes(d, <<"x","s","m","a","l","l">>)
        THEN <<"X","-","S","m","a","l","l">>
        ELSE IF includes(d, <<"x","-","l","a","r","g","e">>) \/ includes(d, <<"x"," ","l","a","r","g","e">>) \/ includes(d, <<"x","l","a","r","g","e">>)
        THEN <<"X","-","L","a","r","g","e">>
        ELSE IF includes(d, <<" ","s","m","a","l","l">>) THEN <<"S","m","a","l","l">>
        ELSE IF includes(d, <<" ","m","e","d","i","u","m">>) THEN <<"M","e","d","i","u","m">>
        ELSE IF includes(d, <<" ","l","a","r","g","e">>) THEN <<"L","a","r","g","e">>
        ELSE Null

inferIsD2FromDivision(divisionRaw) ==
    LET d == normalize(divisionRaw)
    IN  includes(d, <<" ","d","2">>) \/ includes(d, <<"d","2"," ">>)

inferIsFlexFromDivision(divisionRaw) ==
    LET d == normalize(divisionRaw)
    IN  includes(d, <<" ","f","l","e","x">>)

\* Boolean(v) of a boolean column, held as "true" / "false".
Boolean(v) == v = <<"t","r","u","e">>

\* a || b on string-or-null values.
OrElse(a, b) == IF Truthy(a) THEN a ELSE b

parseMeta(r) ==
    LET division == Str(pick(r, <<"division">>, <<>>))
        ageBucket == Str(Get(r, "age_bucket"))
    IN  [division |-> division,
         level |-> inferLevelFromDivision(division),
         age |-> IF ageBucket # <<>> THEN titleCase(ageBucket)
                 ELSE inferAgeFromDivision(division),
         isD2 |-> IF Get(r, "is_d2") # Null THEN Boolean(Get(r, "is_d2"))
                  ELSE inferIsD2FromDivision(division),
         isFlex |-> IF Get(r, "is_flex") # Null THEN Boolean(Get(r, "is_flex"))
                    ELSE inferIsFlexFromDivision(division),
         size |-> OrElse(cleanSizeAny(Get(r, "size_effective")),
                  OrElse(cleanSizeAny(Get(r, "size_raw")),
                  OrElse(cleanSizeAny(pick(r, <<"size", "size_bucket">>, <<>>)),
                         inferSizeFromDivision(division))))]

\* Mutant of buildTrackKey: the size is a part of the track.
buildTrackKeyWithSize(meta) ==
    LET parts ==
            (IF Truthy(meta.level) THEN <<meta.level>> ELSE <<>>)
            \o (IF Truthy(meta.age) THEN <<meta.age>> ELSE <<>>)
            \o (IF meta.isFlex THEN <<<<"F","l","e","x">>>> ELSE <<>>)
            \o (IF meta.isD2 THEN <<<<"D","2">>>> ELSE <<>>)
            \o (IF Truthy(meta.size) THEN <<meta.size>> ELSE <<>>)
    IN  trim(join(parts))

buildTrackKey(meta) ==
    LET parts ==
            (IF Truthy(meta.level) THEN <<meta.level>> ELSE <<>>)
            \o (IF Truthy(meta.age) THEN <<meta.age>> ELSE <<>>)
            \o (IF meta.isFlex THEN <<<<"F","l","e","x">>>> ELSE <<>>)
            \o (IF meta.isD2 THEN <<<<"D","2">>>> ELSE <<>>)
    IN  trim(join(parts))

\* rowsDescByDate.find((x) => !!x.size)?.size ?? null, asked twice.
resolveTeamSize(rowsDescByDate) ==
    LET known == {i \in 1..Len(rowsDescByDate) : Truthy(rowsDescByDate[i].size)}
        latestNonNull ==
            IF known = {} THEN Null
            ELSE rowsDescByDate[CHOOSE i \in known : \A j \in known : i <= j].size
        anyKnown == latestNonNull
    IN  IF Truthy(latestNonNull) THEN latestNonNull ELSE anyKnown

\* ------------------------------------------------------------ filters
DEFAULT_FILTERS ==
    [search |-> <<>>, level |-> "All", age |-> <<"A","l","l">>, d2Mode |-> "Any",
     flexMode |-> "Any", size |-> <<"A","n","y">>, requireTwoPlus |-> TRUE]

\* Mutant of filteredRowsOf: the flex filter reads the division text, not the
\* flag of the row.
filteredRowsByDivisionText(rs, f) ==
    LET q == toLowerCase(trim(f.search))
        ageNorm == normalize(f.age)
        Keep(r) ==
            LET meta == parseMeta(r)
                rowAge == Str(Get(r, "age_bucket"))
                eventName == toLowerCase(Str(pick(r, eventNameKeys, <<>>)))
                program == toLowerCase(Str(pick(r, programKeys, <<>>)))
                team == toLowerCase(Str(pick(r, teamKeys, <<>>)))
                div == toLowerCase(meta.division)
            IN  /\ f.age # <<"A","l","l">> =>
                       IF rowAge # <<>> THEN normalize(rowAge) = ageNorm
                       ELSE includes(normalize(meta.division), ageNorm)
                /\ ~(f.d2Mode = "D2Only" /\ ~meta.isD2)
                /\ ~(f.d2Mode = "NonD2Only" /\ meta.isD2)
                /\ ~(f.flexMode = "FlexOnly" /\ ~inferIsFlexFromDivision(meta.division))
                /\ ~(f.flexMode = "NonFlexOnly" /\ inferIsFlexFromDivision(meta.division))
                /\ q # <<>> =>
                       \/ includes(eventName, q)
                       \/ includes(program, q)
                       \/ includes(team, q)
                       \/ includes(div, q)
    IN  SelectSeq(rs, Keep)

\* Row-level filters only (not size): age, D2, flex and the local search.
filteredRowsOf(rs, f) ==
    LET q == toLowerCase(trim(f.search))
        ageNorm == normalize(f.age)
        Keep(r) ==
            LET meta == parseMeta(r)
                rowAge == Str(Get(r, "age_bucket"))
                eventName == toLowerCase(Str(pick(r, eventNameKeys, <<>>)))
                program == toLowerCase(Str(pick(r, programKeys, <<>>)))
                team == toLowerCase(Str(pick(r, teamKeys, <<>>)))
                div == toLowerCase(meta.division)
            IN  /\ f.age # <<"A","l","l">> =>
                       IF rowAge # <<>> THEN normalize(rowAge) = ageNorm
                       ELSE includes(normalize(meta.division), ageNorm)
                /\ ~(f.d2Mode = "D2Only" /\ ~meta.isD2)
                /\ ~(f.d2Mode = "NonD2Only" /\ meta.isD2)
                /\ ~(f.flexMode = "FlexOnly" /\ ~meta.isFlex)
                /\ ~(f.flexMode = "NonFlexOnly" /\ meta.isFlex)
                /\ q # <<>> =>
                       \/ includes(eventName, q)
                       \/ includes(program, q)
                       \/ includes(team, q)
                       \/ includes(div, q)
    IN  SelectSeq(rs, Keep)

\* ------------------------------------------------------------ result rows
\* The rows the store can return.  The store is an external collaborator:
\* any of these rows, in any number up to MaxRows and in any order.
teamAlpha == [team_id |-> <<"T","1">>, program |-> <<"G","y","m">>, team |-> <<"A","l","p","h","a">>]
teamBeta == [program |-> <<"G","y","m">>, team |-> <<"B","e","t","a">>]

compJan == [event_id |-> <<"e","1">>, weekend_date |-> <<"2","0","2","6","-","0","1","-","1","0">>]
compFeb == [source_url |-> <<"u","2">>, weekend_date |-> <<"2","0","2","6","-","0","2","-","0","7">>]

divJunior == <<"L","3"," ","J","u","n","i","o","r">>
divJuniorD2 == <<"L","3"," ","J","u","n","i","o","r"," ","D","2">>

ResultRow(team, division, comp, score, size) ==
    team @@ comp @@ [division |-> division, event_score |-> score]
         @@ (IF size = Null THEN <<>> ELSE [size_effective |-> size])

StoreRows ==
    { ResultRow(teamAlpha, divJunior, compJan, <<"9","0">>, <<"S","m","a","l","l">>),
      ResultRow(teamAlpha, divJunior, compJan, <<"9","4">>, Null),
      ResultRow(teamAlpha, divJunior, compFeb, <<"8","8">>, <<"M","e","d","i","u","m">>),
      ResultRow(teamAlpha, divJunior, compFeb, <<"a","b","c">>, Null),
      ResultRow(teamAlpha, divJuniorD2, compJan, <<"9","9">>, <<"S","m","a","l","l">>),
      ResultRow(teamBeta, divJunior, compJan, <<"9","4">>, Null),
      ResultRow(teamBeta, divJunior, compFeb, <<"8","5">>, <<"S","m","a","l","l">>),
      ResultRow(teamBeta, divJunior, compFeb, <<"8","8">>, Null) }

\* Rows that differ in how they name their team: by team_id under other
\* names, by names in another case and spacing, by program_id, through the
\* later candidate columns, or not at all.
teamAlphaRenamed == [team_id |-> <<"T","1">>, program |-> <<"O","t","h","e","r">>, team |-> <<"R","e","n","a","m","e","d">>]
teamBetaSpaced == [program |-> <<"G","Y","M"," ">>, team |-> <<" ","b","e","t","a">>]
teamBetaBlankId == [team_id |-> <<" "," ">>, program |-> <<"G","y","m">>, team |-> <<"B","e","t","a">>]
teamEast == [program_id |-> <<"P","1">>, program |-> <<"G","y","m"," ","E","a","s","t">>, team |-> <<"B","e","t","a">>]
teamEastRenamed == [program_id |-> <<"P","1">>, program |-> <<"O","t","h","e","r">>, team |-> <<"b","e","t","a">>]
teamBlankProgram == [program |-> <<" "," ">>, team |-> <<"B","e","t","a">>]
teamNoName == [team_id |-> <<"T","1">>, program |-> <<"G","y","m">>]
teamByAltKeys ==
    [program |-> <<"G","y","m">>, program_name |-> <<"O","t","h","e","r">>, team |-> Null, team_name |-> <<"B","e","t","a">>]

TeamVariants ==
    <<teamAlpha, teamAlphaRenamed, teamBeta, teamBetaSpaced, teamBetaBlankId,
      teamEast, teamEastRenamed, teamBlankProgram, teamNoName, teamByAltKeys>>

\* Rows that differ in how they name their competition.
compJanBoth == [event_id |-> <<"e","1">>, source_url |-> <<"u","9">>, weekend_date |-> <<"2","0","2","6","-","0","2","-","0","7">>]
compFebNamed == [source_url |-> <<"u","2">>, event_name |-> <<"W","i","n","t","e","r">>, weekend_date |-> <<"2","0","2","6","-","0","1","-","1","0">>]
compWinterJan == [event_name |-> <<"W","i","n","t","e","r">>, weekend_date |-> <<"2","0","2","6","-","0","1","-","1","0">>]
compWinterFeb == [event_name |-> <<"W","i","n","t","e","r">>, weekend_date |-> <<"2","0","2","6","-","0","2","-","0","7">>]
compUrlE1 == [source_url |-> <<"e","1">>, weekend_date |-> <<"2","0","2","6","-","0","1","-","1","0">>]
compBlankId == [event_id |-> <<" "," ">>, source_url |-> <<"u","2">>, weekend_date |-> <<"2","0","2","6","-","0","2","-","0","7">>]

CompVariants ==
    <<compJan, compJanBoth, compFeb, compFebNamed, compWinterJan, compWinterFeb,
      compUrlE1, compBlankId>>

\* The decimal text of a score in 80..99.
ScoreText(tens, i) == <<tens, Digits[i]>>

IdentityRows ==
    {ResultRow(TeamVariants[i], divJunior, compJan, ScoreText("8", i), Null) :
        i \in 1..Len(TeamVariants)}
    \cup {ResultRow(teamBeta, divJunior, CompVariants[i], ScoreText("9", i), Null) :
        i \in 1..Len(CompVariants)}
    \cup {ResultRow(teamBeta, <<>>, compJan, <<"7","0">>, Null),
          ResultRow(teamBeta, <<"C","o","e","d"," ","E","l","i","t","e">>, compFeb, <<"7","1">>, <<"S","m","a","l","l">>)}

\* Rows that differ in their division text and structured columns.
DivisionTexts ==
    <<<<"L","3"," ","J","u","n","i","o","r">>, <<"L","3"," ","J","u","n","i","o","r"," ","D","2">>, <<"D","2">>, <<"D","2"," ","J","u","n","i","o","r">>, <<"X","D","2"," ","J","u","n","i","o","r">>,
      <<"L","3"," ","J","u","n","i","o","r"," ","X","D","2">>, <<"l","5"," ","Y","o","u","t","h"," ","D","2","X">>, <<"F","l","e","x"," ","J","u","n","i","o","r">>, <<"L","3"," ","J","u","n","i","o","r"," ","F","l","e","x">>,
      <<"L","3"," ","J","u","n","i","o","r"," ","F","l","e","x","i","b","l","e">>, <<"L","3"," ","R","e","f","l","e","x"," ","O","p","e","n">>, <<"L","3"," ","D","2"," ","F","l","e","x"," ","J","u","n","i","o","r">>,
      <<"L"," ","4"," ","s","e","n","i","o","r"," "," ","s","m","a","l","l">>, <<"O","p","e","n">>, <<"C","o","e","d"," ","E","l","i","t","e">>>>

ParseRows ==
    {ResultRow(teamBeta, DivisionTexts[i], compJan, <<"9","0">>, Null) :
        i \in 1..Len(DivisionTexts)}
    \cup {ResultRow(teamBeta, <<>>, compJan, <<"9","0">>, Null),
          ResultRow(teamBeta, divJunior, compJan, <<"9","0">>, <<"S","m","a","l","l">>),
          ResultRow(teamBeta, divJunior, compJan, <<"9","0">>, <<"M","e","d","i","u","m">>),
          ResultRow(teamBeta, divJuniorD2, compJan, <<"9","0">>, Null) @@ [is_d2 |-> <<"f","a","l","s","e">>],
          ResultRow(teamBeta, divJunior, compJan, <<"9","0">>, Null) @@ [is_flex |-> <<"t","r","u","e">>],
          ResultRow(teamBeta, <<"L","2">>, compJan, <<"9","0">>, Null) @@ [age_bucket |-> <<"y","o","u","t","h">>],
          ResultRow(teamBeta, <<"L","2">>, compJan, <<"9","0">>, Null) @@ [age_bucket |-> <<" "," ">>]}

\* Rows that differ in their flags: one team in the plain, Flex, D2 and
\* Flex D2 tracks, the Flex flag given by the division text or by the
\* structured column.
divJuniorFlex == <<"L","3"," ","J","u","n","i","o","r"," ","F","l","e","x">>
divJuniorFlexD2 == <<"L","3"," ","J","u","n","i","o","r"," ","F","l","e","x"," ","D","2">>

FlagRows ==
    { ResultRow(teamBeta, divJunior, compJan, <<"8","1">>, Null),
      ResultRow(teamBeta, divJunior, compFeb, <<"8","2">>, Null),
      ResultRow(teamBeta, divJuniorFlex, compJan, <<"8","3">>, Null),
      ResultRow(teamBeta, divJunior, compFeb, <<"8","4">>, Null) @@ [is_flex |-> <<"t","r","u","e">>],
      ResultRow(teamBeta, divJuniorD2, compJan, <<"8","5">>, Null),
      ResultRow(teamBeta, divJuniorD2, compFeb, <<"8","6">>, Null),
      ResultRow(teamBeta, divJuniorFlexD2, compFeb, <<"8","7">>, Null) }

\* Rows of many teams, enough to fill the table: team n has a January score,
\* two teams in three also a February score, every other team a size.
TwoDigits(n) == <<Digits[(n \div 10) + 1], Digits[(n % 10) + 1]>>

topTeam(n) == [program |-> <<"G","y","m">>, team |-> <<"T">> \o TwoDigits(n)]

TopRowsOf(n) ==
    <<ResultRow(topTeam(n), divJunior, compJan, TwoDigits(70 + ((n * 7) % 23)),
                IF n % 2 = 0 THEN <<"S","m","a","l","l">> ELSE Null)>>
    \o (IF n % 3 # 0
        THEN <<ResultRow(topTeam(n), divJunior, compFeb,
                         TwoDigits(70 + ((n * 5) % 19)), Null)>>
        ELSE <<>>)

\* The rows of n teams, starting after team k and going round.
RECURSIVE teamsFrom(_, _)
teamsFrom(k, n) ==
    IF n = 0 THEN <<>>
    ELSE TopRowsOf((k % MaxTeams) + 1) \o teamsFrom(k + 1, n - 1)

TopSets == {teamsFrom(k, n) : k \in 0..(MaxTeams - 1), n \in 0..MaxTeams}

TopRows ==
    UNION {{TopRowsOf(n)[i] : i \in 1..Len(TopRowsOf(n))} : n \in 1..MaxTeams}

\* ------------------------------------------------------------ aggregation
\* The track of a row: level, age, Flex, D2 (no size).
trackOf(r) == buildTrackKey(parseMeta(r))

\* Mutant of teamIdentityOf: the team_id is not looked at.
teamIdentityByNames(r) ==
    LET program == trim(Str(pick(r, programKeys, <<>>)))
        team == trim(Str(pick(r, teamKeys, <<>>)))
        programId == trim(Str(Get(r, "program_id")))
    IN  (IF programId # <<>> THEN programId ELSE normalize(program))
        \o <<"_","_">> \o normalize(team)

\* The team a row belongs to: its team_id when it has one, else its program
\* (id, or normalized name) and its normalized team name.
teamIdentityOf(r) ==
    LET program == trim(Str(pick(r, programKeys, <<>>)))
        team == trim(Str(pick(r, teamKeys, <<>>)))
        teamId == trim(Str(Get(r, "team_id")))
        programId == trim(Str(Get(r, "program_id")))
    IN  IF teamId # <<>> THEN teamId
        ELSE (IF programId # <<>> THEN programId ELSE normalize(program))
             \o <<"_","_">> \o normalize(team)

\* Mutant of groupKeyOf: the track is left out of the key.
groupKeyWithoutTrack(r) == teamIdentityOf(r)

\* The group a row is aggregated into: `${teamId}__${track}`, or
\* `${programId || normalize(program)}__${normalize(team)}__${track}`.
groupKeyOf(r) == teamIdentityOf(r) \o <<"_","_">> \o trackOf(r)

\* Mutant of compKeyOf: the key carries no tier prefix.
compKeyWithoutTier(r) ==
    LET eventId == trim(Str(pick(r, eventIdKeys, <<>>)))
        weekend == trim(Str(pick(r, weekendKeys, <<>>)))
        eventName == trim(Str(pick(r, eventNameKeys, <<>>)))
        sourceUrl == trim(Str(pick(r, sourceUrlKeys, <<>>)))
    IN  IF eventId # <<>> THEN eventId
        ELSE IF sourceUrl # <<>> THEN sourceUrl
        ELSE eventName \o <<"_","_","w","k",":">> \o weekend

\* The competition a row belongs to: event id, else source URL, else
\* event name and weekend.
compKeyOf(r) ==
    LET eventId == trim(Str(pick(r, eventIdKeys, <<>>)))
        weekend == trim(Str(pick(r, weekendKeys, <<>>)))
        eventName == trim(Str(pick(r, eventNameKeys, <<>>)))
        sourceUrl == trim(Str(pick(r, sourceUrlKeys, <<>>)))
    IN  IF eventId # <<>> THEN <<"e","v","e","n","t",":">> \o eventId
        ELSE IF sourceUrl # <<>> THEN <<"u","r","l",":">> \o sourceUrl
        ELSE <<"n","a","m","e",":">> \o eventName \o <<"_","_","w","k",":">> \o weekend

\* The score the aggregation reads from a row.
scoreOf(r) == toNum(pick(r, eventScoreKeys, <<"0">>))

\* Mutant of isRanked: a row without a program or team name is kept.
isRankedWithoutNames(r) == trackOf(r) # <<>>

\* Whether the loop body reaches the aggregation for a row (no `continue`).
isRanked(r) ==
    /\ trim(Str(pick(r, programKeys, <<>>))) # <<>>
    /\ trim(Str(pick(r, teamKeys, <<>>))) # <<>>
    /\ trackOf(r) # <<>>

\* Position of a key in an insertion-ordered Map held as a sequence; 0 if absent.
MapIndex(m, k) ==
    IF \E i \in 1..Len(m) : m[i].key = k
    THEN CHOOSE i \in 1..Len(m) : m[i].key = k
    ELSE 0

\* Mutants of keepBest: the last score of a competition replaces the kept
\* one; every row adds an entry.
keepLast(compScores, compKey, score) ==
    LET i == MapIndex(compScores, compKey)
    IN  IF i = 0 THEN Append(compScores, [key |-> compKey, score |-> score])
        ELSE [compScores EXCEPT ![i].score = score]

keepEvery(compScores, compKey, score) ==
    Append(compScores, [key |-> compKey, score |-> score])

\* dedupe: keep best score per competition key.
keepBest(compScores, compKey, score) ==
    LET i == MapIndex(compScores, compKey)
    IN  IF i = 0 THEN Append(compScores, [key |-> compKey, score |-> score])
        ELSE IF score > compScores[i].score
        THEN [compScores EXCEPT ![i].score = score]
        ELSE compScores

\* The constants one iteration of the loop derives from its row.
rowRead(r) ==
    [ranked   |-> isRanked(r),
     program  |-> trim(Str(pick(r, programKeys, <<>>))),
     team     |-> trim(Str(pick(r, teamKeys, <<>>))),
     size     |-> parseMeta(r).size,
     track    |-> trackOf(r),
     groupKey |-> groupKeyOf(r),
     score    |-> scoreOf(r),
     compKey  |-> compKeyOf(r),
     weekend  |-> trim(Str(pick(r, weekendKeys, <<>>)))]

\* rowRead is a function of the row alone: it is tabulated over the rows
\* the result sets are drawn from, once.
KnownRows == StoreRows \cup IdentityRows \cup ParseRows \cup TopRows \cup FlagRows

RowReads == [r \in KnownRows |-> rowRead(r)]

\* One iteration of `for (const r of filteredRows)`.
aggregateRow(map, r) ==
    LET d == RowReads[r]
    IN  IF ~d.ranked THEN map
        ELSE
        LET i == MapIndex(map, d.groupKey)
            agg == IF i # 0 THEN map[i]
                   ELSE [key |-> d.groupKey,
                         program |-> d.program,
                         team |-> d.team,
                         track |-> d.track,
                         compScores |-> <<>>,
                         rowsByWeekendDesc |-> <<>>]
            next == [agg EXCEPT
                       !.compScores = keepBest(@, d.compKey, d.score),
                       !.rowsByWeekendDesc =
                           Append(@, [weekend |-> d.weekend, size |-> d.size])]
        IN  IF i # 0 THEN [map EXCEPT ![i] = next] ELSE Append(map, next)

\* The loop: one iteration is finished before the next one starts (the
\* length test makes the evaluator do so; a map never shrinks).
RECURSIVE aggregate(_, _)
aggregate(map, rs) ==
    IF rs = <<>> THEN map
    ELSE LET next == aggregateRow(map, Head(rs))
         IN  IF Len(next) < Len(map) THEN next ELSE aggregate(next, Tail(rs))

\* (x, y) => (y.weekend || "").localeCompare(x.weekend || "")
weekendCompare(x, y) == localeCompare(y.weekend, x.weekend)

\* Array.prototype.sort is stable: an element goes before the first element
\* the comparator puts it strictly ahead of.
RECURSIVE insertByWeekend(_, _)
insertByWeekend(sorted, x) ==
    IF sorted = <<>> THEN <<x>>
    ELSE IF weekendCompare(x, Head(sorted)) < 0 THEN <<x>> \o sorted
    ELSE <<Head(sorted)>> \o insertByWeekend(Tail(sorted), x)

\* Mutant of sortByWeekendDesc: the history is left in input order.
unsortedHistory(s) == s

RECURSIVE sortByWeekendDesc(_)
sortByWeekendDesc(s) ==
    IF s = <<>> THEN <<>>
    ELSE insertByWeekend(sortByWeekendDesc(SubSeq(s, 1, Len(s) - 1)), s[Len(s)])

RECURSIVE sumScores(_)
sumScores(scores) ==
    IF scores = <<>> THEN 0 ELSE Head(scores).score + sumScores(Tail(scores))

\* An average is the exact fraction num / den (den > 0).
average(compScores) ==
    IF Len(compScores) > 0
    THEN [num |-> sumScores(compScores), den |-> Len(compScores)]
    ELSE [num |-> 0, den |-> 1]

\* Mutant of teamRow: a team of unresolved size gets a placeholder.
teamRowWithPlaceholder(a) ==
    LET sizeFinal == resolveTeamSize(sortByWeekendDesc(a.rowsByWeekendDesc))
    IN  [key |-> a.key,
         program |-> a.program,
         team |-> a.team,
         bucket |-> a.track \o << " " >>
                    \o (IF Truthy(sizeFinal) THEN sizeFinal ELSE <<"U","n","k","n","o","w","n">>),
         size_final |-> sizeFinal,
         avg |-> average(a.compScores),
         comps |-> Len(a.compScores)]

\* The team row built from one group.
teamRow(a) ==
    LET sizeFinal == resolveTeamSize(sortByWeekendDesc(a.rowsByWeekendDesc))
    IN  [key |-> a.key,
         program |-> a.program,
         team |-> a.team,
         bucket |-> IF Truthy(sizeFinal) THEN a.track \o <<" ">> \o sizeFinal ELSE a.track,
         size_final |-> sizeFinal,
         avg |-> average(a.compScores),
         comps |-> Len(a.compScores)]

\* Mutant of avgCompare: ascending.
avgCompareAscending(x, y) ==
    LET d == x.avg.num * y.avg.den - y.avg.num * x.avg.den
    IN  IF d < 0 THEN -1 ELSE IF d > 0 THEN 1 ELSE 0

\* (x, y) => y.avg - x.avg, as its sign.
avgCompare(x, y) ==
    LET d == y.avg.num * x.avg.den - x.avg.num * y.avg.den
    IN  IF d < 0 THEN -1 ELSE IF d > 0 THEN 1 ELSE 0

\* Mutant of insertByAvg: an element goes ahead of the elements it ties with.
RECURSIVE insertAheadOfTies(_, _)
insertAheadOfTies(sorted, x) ==
    IF sorted = <<>> THEN <<x>>
    ELSE IF avgCompare(x, Head(sorted)) <= 0 THEN <<x>> \o sorted
    ELSE <<Head(sorted)>> \o insertAheadOfTies(Tail(sorted), x)

RECURSIVE insertByAvg(_, _)
insertByAvg(sorted, x) ==
    IF sorted = <<>> THEN <<x>>
    ELSE IF avgCompare(x, Head(sorted)) < 0 THEN <<x>> \o sorted
    ELSE <<Head(sorted)>> \o insertByAvg(Tail(sorted), x)

RECURSIVE sortByAvgDesc(_)
sortByAvgDesc(s) ==
    IF s = <<>> THEN <<>>
    ELSE insertByAvg(sortByAvgDesc(SubSeq(s, 1, Len(s) - 1)), s[Len(s)])

\* Mutant of twoPlusFilter: one competition is enough.
twoPlusFilterAtLeastOne(out, f) ==
    LET Keep(x) == x.comps >= 1
    IN  IF f.requireTwoPlus THEN SelectSeq(out, Keep) ELSE out

\* if (filters.requireTwoPlus) out = out.filter((x) => x.comps >= 2)
twoPlusFilter(out, f) ==
    LET Keep(x) == x.comps >= 2
    IN  IF f.requireTwoPlus THEN SelectSeq(out, Keep) ELSE out

\* Mutant of sizeFilter: a team of unresolved size passes.
sizeFilterLoose(out, f) ==
    LET Keep(x) == ~Truthy(x.size_final) \/ normalize(x.size_final) = normalize(f.size)
    IN  IF f.size # <<"A","n","y">> THEN SelectSeq(out, Keep) ELSE out

\* size filter at team level
sizeFilter(out, f) ==
    LET Keep(x) == Truthy(x.size_final) /\ normalize(x.size_final) = normalize(f.size)
    IN  IF f.size # <<"A","n","y">> THEN SelectSeq(out, Keep) ELSE out

\* Array.from(map.values()).map(...)
RECURSIVE teamRowsOf(_)
teamRowsOf(map) ==
    IF map = <<>> THEN <<>> ELSE <<teamRow(Head(map))>> \o teamRowsOf(Tail(map))

\* Mutant of teamRankingsOf: the list is cut to the table size before the
\* filters and the sort.
truncatedBeforeFilters(frs, f) ==
    sortByAvgDesc(sizeFilter(twoPlusFilter(
        SubSeq(teamRowsOf(aggregate(<<>>, frs)), 1,
               IF Len(aggregate(<<>>, frs)) < 20 THEN Len(aggregate(<<>>, frs)) ELSE 20),
        f), f))

teamRankingsOf(frs, f) ==
    sortByAvgDesc(sizeFilter(twoPlusFilter(teamRowsOf(aggregate(<<>>, frs)), f), f))

\* Mutant of newMap: the map of the previous run is reused.
mapOfPreviousRun(left) == left

\* const map = new Map(): a run of the memo callback starts from an empty
\* map, whatever an earlier run left behind.
newMap(left) == <<>>

\* a.rowsByWeekendDesc.sort(...) sorts the history of every group in place.
RECURSIVE historiesSorted(_)
historiesSorted(map) ==
    IF map = <<>> THEN <<>>
    ELSE <<[Head(map) EXCEPT !.rowsByWeekendDesc = sortByWeekendDesc(@)]>>
         \o historiesSorted(Tail(map))

\* One run of the memo callback, started when an earlier run left the map
\* `left`: the map it leaves and the ranking it returns.
teamRankingsRun(left, frs, f) ==
    LET map == aggregate(newMap(left), frs)
    IN  [map |-> historiesSorted(map),
         out |-> sortByAvgDesc(sizeFilter(twoPlusFilter(teamRowsOf(map), f), f))]

filteredRows == filteredRowsOf(rows, filters)

teamRankings == teamRankingsOf(filteredRows, filters)

\* The Map of groups after the loop, and a row for every group (before the
\* team-level filters).
groups == aggregate(<<>>, filteredRows)

allTeamRows == teamRowsOf(groups)

\* ------------------------------------------------------------ presentation
TableSize == 20

Prefix(s, n) == SubSeq(s, 1, IF Len(s) < n THEN Len(s) ELSE n)

tableTop20 == Prefix(teamRankings, TableSize)

ChartSize == 10

\* The legend separator is a dash between spaces.
RECURSIVE chartOf(_)
chartOf(ts) ==
    IF ts = <<>> THEN <<>>
    ELSE <<[key |-> Head(ts).key,
            label |-> Head(ts).team,
            legendLabel |-> Head(ts).program \o <<" ","-"," ">> \o Head(ts).team,
            value |-> Head(ts).avg]>>
         \o chartOf(Tail(ts))

chartTop10 == chartOf(Prefix(teamRankings, ChartSize))

\* The table prints idx + 1 for the row at 0-based index idx.
RECURSIVE ranksFrom(_, _)
ranksFrom(idx, n) ==
    IF idx >= n THEN <<>> ELSE <<idx + 1>> \o ranksFrom(idx + 1, n)

tableRanks == ranksFrom(0, Len(tableTop20))

\* ------------------------------------------------------------ result sets
ResultSets == UNION {[1..n -> StoreRows] : n \in 0..MaxRows}

IdentitySets == UNION {[1..n -> IdentityRows] : n \in 0..MaxIdRows}

ParseSets == UNION {[1..n -> ParseRows] : n \in 0..MaxParseRows}

FlagSets == UNION {[1..n -> FlagRows] : n \in 0..MaxFlagRows}

\* What a fetch can resolve to in the fetch-race specification: an error
\* value, no data (null), or one of a few result sets.
ErrValue == <<"f","e","t","c","h"," ","f","a","i","l","e","d">>

FetchData ==
    { <<>>,
      <<ResultRow(teamAlpha, divJunior, compFeb, <<"8","8">>, <<"M","e","d","i","u","m">>),
        ResultRow(teamAlpha, divJunior, compJan, <<"9","4">>, Null)>>,
      <<ResultRow(teamBeta, divJunior, compJan, <<"9","4">>, Null)>> }

Outcomes ==
    {[error |-> ErrValue, data |-> <<>>]}
    \cup {[error |-> Null, data |-> d] : d \in FetchData}

LevelOpts == {"All", "L3"}
SearchOpts == {<<>>, <<"a","l">>}
SizeOpts == {<<"A","n","y">>, <<"S","m","a","l","l">>, <<"M","e","d","i","u","m">>}
AgeOpts == {<<"A","l","l">>, <<"J","u","n","i","o","r">>}
D2Modes == {"Any", "D2Only", "NonD2Only"}
FlexModes == {"Any", "FlexOnly", "NonFlexOnly"}

\* Search texts of one character: too short for the server-side search, used
\* by the local search of filteredRows.
ShortSearchOpts == {<<>>, <<"w">>, <<"b">>}

\* ------------------------------------------------------------ team search page
\* teamSearch holds the state of TeamSearchPage: query, hits, loading and
\* error are its state hooks; runs[i] is the i-th run of its effect (the
\* trimmed query q it ran with, the `cancelled` flag of its closure, whether
\* it went on to fetch); arrivals is the history of responses (whose run,
\* which run was the latest then, whether it was applied); source is the run
\* and the data the hit list was last written from.
TeamSearchRow(id, team, wd) ==
    [team_id |-> id, program_id |-> <<"P","1">>, team |-> team, program |-> <<"G","y","m">>,
     weekend_date |-> wd]

\* Rows of v_results_normalized as the search selects them.
SearchRows ==
    { TeamSearchRow(<<"T","1">>, <<"A","l","p","h","a">>, <<"2","0","2","6","-","0","1","-","1","0">>),
      TeamSearchRow(<<"T","1">>, <<"A","l","p","h","a">>, <<"2","0","2","6","-","0","2","-","0","7">>),
      TeamSearchRow(<<"T","2">>, <<"A","l","t","o","s">>, <<"2","0","2","6","-","0","2","-","0","7">>),
      TeamSearchRow(<<"T","2">>, <<"A","l","t","o","s">>, Null),
      TeamSearchRow(Null, <<"B","e","l","a">>, <<"2","0","2","6","-","0","1","-","1","0">>),
      TeamSearchRow(<<"T","3">>, <<"B","e","t","a">>, <<"2","0","2","6","-","0","1","-","1","0">>) }

\* .ilike("team", `%${q}%`)
ilikeTeam(r, q) == includes(toLowerCase(Str(Get(r, "team"))), toLowerCase(q))

\* What the search for q can resolve to: an error value, no data (null), or
\* up to MaxHitRows of the matching rows in any order, each row once.
SearchData(q) ==
    LET matching == {r \in SearchRows : ilikeTeam(r, q)}
    IN  UNION {{d \in [1..n -> matching] : \A i, j \in 1..n : d[i] = d[j] => i = j} :
                   n \in 0..MaxHitRows}

SearchOutcomes(q) ==
    {[error |-> ErrValue, data |-> <<>>]}
    \cup {[error |-> Null, data |-> d] : d \in SearchData(q)}

QueryOpts == {<<>>, <<"a">>, <<"a","l">>, <<"a","l"," ">>, <<"b","e">>}

\* map.get(teamId): the position of the entry of teamId, 0 when there is none.
hitIndex(map, teamId) ==
    LET hits == {i \in 1..Len(map) : map[i].team_id = teamId}
    IN  IF hits = {} THEN 0 ELSE CHOOSE i \in hits : TRUE

\* One step of the loop over the data.  The separator of the display name
\* is an em dash in the source, written " - " here.
addHit(map, r) ==
    LET teamId == Get(r, "team_id")
        team == Str(Get(r, "team"))
        program == Str(Get(r, "program"))
        programId == Get(r, "program_id")
        wd == Get(r, "weekend_date")
        at == hitIndex(map, teamId)
    IN  IF at = 0
        THEN Append(map, [team_id |-> teamId,
                          program_id |-> programId,
                          team |-> team,
                          program |-> program,
                          team_display_name |-> team \o <<" ","-"," ">> \o program,
                          rows |-> 1,
                          first_week |-> wd,
                          last_week |-> wd])
        ELSE LET existing == map[at]
             IN  [map EXCEPT ![at] =
                     [existing EXCEPT
                         !.rows = existing.rows + 1,
                         !.first_week =
                             IF /\ Truthy(wd)
                                /\ \/ ~Truthy(existing.first_week)
                                   \/ localeCompare(wd, existing.first_week) < 0
                             THEN wd ELSE existing.first_week,
                         !.last_week =
                             IF /\ Truthy(wd)
                                /\ \/ ~Truthy(existing.last_week)
                                   \/ localeCompare(wd, existing.last_week) > 0
                             THEN wd ELSE existing.last_week]]

RECURSIVE hitMap(_, _)
hitMap(map, data) ==
    IF data = <<>> THEN map
    ELSE LET next == addHit(map, Head(data))
         IN  IF Len(next) < Len(map) THEN next ELSE hitMap(next, Tail(data))

\* The comparator of the sort: most recent activity first, then more rows.
hitCompare(a, b) ==
    LET ad == Str(a.last_week)
        bd == Str(b.last_week)
    IN  IF ad # bd THEN localeCompare(bd, ad) ELSE b.rows - a.rows

RECURSIVE insertHit(_, _)
insertHit(sorted, x) ==
    IF sorted = <<>> THEN <<x>>
    ELSE IF hitCompare(x, Head(sorted)) < 0 THEN <<x>> \o sorted
    ELSE <<Head(sorted)>> \o insertHit(Tail(sorted), x)

RECURSIVE sortHits(_)
sortHits(s) ==
    IF s = <<>> THEN <<>>
    ELSE insertHit(sortHits(SubSeq(s, 1, Len(s) - 1)), s[Len(s)])

\* The list a response with the rows `data` is turned into.
hitList(data) == sortHits(hitMap(<<>>, data))

\* const q = query.trim()
searchText(query) == trim(query)

helperText ==
    IF Len(searchText(teamSearch.query)) < 2 THEN "Type at least 2 characters to search teams."
    ELSE IF teamSearch.loading THEN "Searching..."
    ELSE IF teamSearch.error # Null THEN "Search error (see details below)."
    ELSE "unique team(s) found."

\* The effect's cleanup: the closure of the latest run gets cancelled.
searchCleanup(runs) == [runs EXCEPT ![Len(runs)].cancelled = TRUE]

\* setQuery(v): when the trimmed text changed, the effect is cleaned up and
\* run again, up to its return or its await.
setQuery(v) ==
    LET q == searchText(v)
        n == Len(teamSearch.runs)
    IN  /\ v # teamSearch.query
        /\ IF q = searchText(teamSearch.query)
           THEN teamSearch' = [teamSearch EXCEPT !.query = v]
           ELSE /\ n < MaxRuns
                /\ IF Len(q) < 2
                   THEN teamSearch' =
                            [teamSearch EXCEPT
                                !.query = v,
                                !.error = Null,
                                !.hits = <<>>,
                                !.runs = Append(searchCleanup(@), [q |-> q, cancelled |-> FALSE,
                                                             fetched |-> FALSE]),
                                !.source = [run |-> n + 1, data |-> <<>>]]
                   ELSE teamSearch' =
                            [teamSearch EXCEPT
                                !.query = v,
                                !.error = Null,
                                !.loading = TRUE,
                                !.runs = Append(searchCleanup(@), [q |-> q, cancelled |-> FALSE,
                                                             fetched |-> TRUE])]
        /\ UNCHANGED <<rankingsVars, gate, route, explorer>>

SetQuery == \E v \in QueryOpts : setQuery(v)

\* Mutant of searchResolve: the `cancelled` check is missing.
searchResolveIgnoringCancelled(i, res) ==
    /\ teamSearch.runs[i].fetched
    /\ \A k \in 1..Len(teamSearch.arrivals) : teamSearch.arrivals[k].run # i
    /\ teamSearch' =
           [teamSearch EXCEPT
               !.arrivals = Append(@, [run |-> i, latest |-> Len(teamSearch.runs),
                                       applied |-> TRUE]),
               !.error = IF res.error # Null THEN res.error ELSE @,
               !.hits = IF res.error # Null THEN <<>> ELSE hitList(res.data),
               !.loading = FALSE,
               !.source = [run |-> i, data |-> res.data]]
    /\ UNCHANGED <<rankingsVars, gate, route, explorer>>

\* run() after its await, for the i-th run of the effect.
searchResolve(i, res) ==
    /\ teamSearch.runs[i].fetched
    /\ \A k \in 1..Len(teamSearch.arrivals) : teamSearch.arrivals[k].run # i
    /\ IF teamSearch.runs[i].cancelled
       THEN teamSearch' =
                [teamSearch EXCEPT
                    !.arrivals = Append(@, [run |-> i, latest |-> Len(teamSearch.runs),
                                            applied |-> FALSE])]
       ELSE teamSearch' =
                [teamSearch EXCEPT
                    !.arrivals = Append(@, [run |-> i, latest |-> Len(teamSearch.runs),
                                            applied |-> TRUE]),
                    !.error = IF res.error # Null THEN res.error ELSE @,
                    !.hits = IF res.error # Null THEN <<>> ELSE hitList(res.data),
                    !.loading = FALSE,
                    !.source = [run |-> i, data |-> res.data]]
    /\ UNCHANGED <<rankingsVars, gate, route, explorer>>

SearchDeliver ==
    \E i \in 1..Len(teamSearch.runs) :
        \E res \in SearchOutcomes(teamSearch.runs[i].q) : searchResolve(i, res)

\* After mount: the effect ran once with the empty query.
TeamSearchMounted ==
    [query |-> <<>>, hits |-> <<>>, loading |-> FALSE, error |-> Null,
     runs |-> <<[q |-> <<>>, cancelled |-> FALSE, fetched |-> FALSE]>>,
     arrivals |-> <<>>,
     source |-> [run |-> 1, data |-> <<>>]]

\* ------------------------------------------------------------ comp-builder gate
\* gate holds the state of CompBuilderPage (gateEmail, unlocked, status,
\* msg), the value under STORAGE_KEY in the browser's local storage
\* (stored), the emails in the waitlist table, and the unlock call in
\* progress: pending is the email whose insert is awaited.  attempt records
\* the last call of unlock: the text it read, whether its storage write went
\* through, what storage and waitlist held before it, how its insert ended.
EmailOpts == {<<>>, <<" "," ">>, <<"b","o","b">>, <<" ","A","n","n","@","x",".","i","o"," ">>, <<"c","y","@","x",".","i","o">>}

NoAttempt == [email |-> Null]

\* The messages of the errors the waitlist insert can report.
InsertErrors == {<<"D","u","p","l","i","c","a","t","e"," ","k","e","y"," ","v","a","l","u","e">>, <<"n","e","t","w","o","r","k"," ","t","i","m","e","o","u","t">>}

InsertOutcomes == {Null} \cup InsertErrors

\* After the mount effect, for what local storage held: an existing value
\* unlocks the page and fills the field.
GateMounted(existing) ==
    [gateEmail |-> IF Truthy(existing) THEN existing ELSE <<>>,
     unlocked |-> Truthy(existing),
     status |-> "idle",
     msg |-> <<>>,
     stored |-> existing,
     waitlist |-> {},
     pending |-> Null,
     attempt |-> NoAttempt]

\* onChange of the email field (the field belongs to the locked view).
TypeEmail ==
    /\ ~gate.unlocked
    /\ \E v \in EmailOpts :
           /\ v # gate.gateEmail
           /\ gate' = [gate EXCEPT !.gateEmail = v]
    /\ UNCHANGED <<rankingsVars, teamSearch, route, explorer>>

\* Mutant of unlockStart: the "@" test is missing.
unlockStartWithoutAtTest(writes) ==
    LET email == trim(gate.gateEmail)
        before == [email |-> gate.gateEmail, wrote |-> writes,
                   stored |-> gate.stored, waitlist |-> gate.waitlist,
                   outcome |-> "none"]
    IN  /\ ~gate.unlocked
        /\ gate.status # "loading"
        /\ IF email = <<>>
           THEN gate' = [gate EXCEPT
                            !.status = "error",
                            !.msg = <<"P","l","e","a","s","e"," ","e","n","t","e","r"," ","y","o","u","r"," ","e","m","a","i","l"," ","t","o"," ","c","o","n","t","i","n","u","e",".">>,
                            !.attempt = before]
           ELSE gate' = [gate EXCEPT
                            !.status = "loading",
                            !.msg = <<>>,
                            !.stored = IF writes THEN email ELSE @,
                            !.pending = email,
                            !.attempt = before]
        /\ UNCHANGED <<rankingsVars, teamSearch, route, explorer>>

\* unlock up to its return or its await.  The button is disabled while
\* status is "loading".  localStorage.setItem may throw, which is ignored:
\* `writes` tells whether it went through.
unlockStart(writes) ==
    LET email == trim(gate.gateEmail)
        before == [email |-> gate.gateEmail, wrote |-> writes,
                   stored |-> gate.stored, waitlist |-> gate.waitlist,
                   outcome |-> "none"]
    IN  /\ ~gate.unlocked
        /\ gate.status # "loading"
        /\ IF email = <<>> \/ ~includes(email, <<"@">>)
           THEN gate' = [gate EXCEPT
                            !.status = "error",
                            !.msg = <<"P","l","e","a","s","e"," ","e","n","t","e","r"," ","y","o","u","r"," ","e","m","a","i","l"," ","t","o"," ","c","o","n","t","i","n","u","e",".">>,
                            !.attempt = before]
           ELSE gate' = [gate EXCEPT
                            !.status = "loading",
                            !.msg = <<>>,
                            !.stored = IF writes THEN email ELSE @,
                            !.pending = email,
                            !.attempt = before]
        /\ UNCHANGED <<rankingsVars, teamSearch, route, explorer>>

UnlockStart == \E writes \in BOOLEAN : unlockStart(writes)

\* unlock after its await: the insert of the lower-cased email ended with
\* err (null when it went through).
unlockResolve(err) ==
    /\ gate.pending # Null
    /\ IF err # Null /\ ~includes(toLowerCase(err), <<"d","u","p","l","i","c","a","t","e">>)
       THEN gate' = [gate EXCEPT
                        !.status = "error",
                        !.msg = <<"S","a","v","e","d"," ","l","o","c","a","l","l","y",","," ","b","u","t"," ","f","a","i","l","e","d"," ","t","o"," ","s","a","v","e"," ","t","o"," ","w","a","i","t","l","i","s","t",".">>,
                        !.unlocked = TRUE,
                        !.pending = Null,
                        !.attempt.outcome = "failed"]
       ELSE gate' = [gate EXCEPT
                        !.unlocked = TRUE,
                        !.status = "idle",
                        !.pending = Null,
                        !.waitlist = IF err = Null
                                     THEN @ \cup {toLowerCase(gate.pending)} ELSE @,
                        !.attempt.outcome =
                            IF err = Null THEN "inserted" ELSE "duplicate"]
    /\ UNCHANGED <<rankingsVars, teamSearch, route, explorer>>

UnlockResolve == \E err \in InsertOutcomes : unlockResolve(err)

\* reset: localStorage.removeItem may throw, which is ignored.
reset(removes) ==
    /\ gate.unlocked
    /\ gate' = [gate EXCEPT
                   !.stored = IF removes THEN Null ELSE @,
                   !.unlocked = FALSE,
                   !.gateEmail = <<>>,
                   !.msg = <<>>,
                   !.status = "idle",
                   !.attempt = NoAttempt]
    /\ UNCHANGED <<rankingsVars, teamSearch, route, explorer>>

Reset == \E removes \in BOOLEAN : reset(removes)

\* ------------------------------------------------------------ rankings API route
\* route holds one request to GET of the rankings route and what became of
\* it: the query parameters (a parameter that is absent is not in the
\* record), the calls made to the stored procedure, the procedure's answer
\* and the response.
ParamTexts ==
    [division |-> {<<>>, <<"L","3"," ","J","u","n","i","o","r">>},
     is_flex |-> {<<>>, <<"t","r","u","e">>, <<"f","a","l","s","e">>},
     is_d2 |-> {<<>>, <<"t","r","u","e">>, <<"T","R","U","E">>},
     size_effective |-> {<<>>, <<"S","m","a","l","l">>},
     min_events |-> {<<"3">>, <<"a","b","c">>}]

ParamNames == {"division", "is_flex", "is_d2", "size_effective", "min_events"}

\* Every query string over the parameter names: any subset of them, each
\* with one of its texts.
RouteRequests ==
    UNION {{p \in [names -> UNION {ParamTexts[k] : k \in names}] :
               \A k \in names : p[k] \in ParamTexts[k]} :
           names \in SUBSET ParamNames}

\* searchParams.get(name): null when the parameter is absent.
searchParam(params, name) == Get(params, name)

\* Number(text): the number of a numeral, NaN otherwise.
NaN == <<"NaN">>

Number(text) == IF NumberIsFinite(text) THEN NumberValue(text) ELSE NaN

ProcedureLimit == 200

\* The data the stored procedure can return, and the message of the error
\* it can fail with.
ProcedureRows ==
    {Null, <<>>,
     <<[team |-> <<"A","l","p","h","a">>, avg_score |-> 90], [team |-> <<"B","e","t","a">>, avg_score |-> 88]>>}

ProcedureOutcomes ==
    {[error |-> <<"p","e","r","m","i","s","s","i","o","n"," ","d","e","n","i","e","d">>, data |-> Null]}
    \cup {[error |-> Null, data |-> d] : d \in ProcedureRows}

RouteIdle ==
    [phase |-> "idle", params |-> <<>>, calls |-> <<>>, answer |-> Null,
     response |-> Null]

\* Mutant of routeGet: min_events defaults to 1.
routeGetDefaultOne(params) ==
    LET division == searchParam(params, "division")
        is_flex == searchParam(params, "is_flex")
        is_d2 == searchParam(params, "is_d2")
        size_effective == searchParam(params, "size_effective")
        min_events == Number(IF searchParam(params, "min_events") = Null
                             THEN <<"1">> ELSE searchParam(params, "min_events"))
    IN  /\ route.phase # "awaiting"
        /\ IF ~Truthy(division) \/ is_flex = Null \/ is_d2 = Null
              \/ ~Truthy(size_effective)
           THEN route' =
                    [phase |-> "done", params |-> params, calls |-> <<>>,
                     answer |-> Null,
                     response |->
                         [status |-> 400,
                          body |-> [error |-> <<"d","i","v","i","s","i","o","n",","," ","i","s","_","f","l","e","x",","," ","i","s","_","d","2",","," ","s","i","z","e","_","e","f","f","e","c","t","i","v","e"," ","a","r","e"," ","r","e","q","u","i","r","e","d">>]]]
           ELSE route' =
                    [phase |-> "awaiting", params |-> params,
                     calls |-> <<[name |-> "get_rankings_from_normalized",
                                  p_division |-> division,
                                  p_is_flex |-> is_flex = <<"t","r","u","e">>,
                                  p_is_d2 |-> is_d2 = <<"t","r","u","e">>,
                                  p_size_effective |-> size_effective,
                                  p_min_events |-> min_events,
                                  p_limit |-> ProcedureLimit]>>,
                     answer |-> Null,
                     response |-> Null]
        /\ UNCHANGED <<rankingsVars, teamSearch, gate, explorer>>

\* GET up to its return or its await, for a request with the parameters
\* `params`.
routeGet(params) ==
    LET division == searchParam(params, "division")
        is_flex == searchParam(params, "is_flex")
        is_d2 == searchParam(params, "is_d2")
        size_effective == searchParam(params, "size_effective")
        min_events == Number(IF searchParam(params, "min_events") = Null
                             THEN <<"2">> ELSE searchParam(params, "min_events"))
    IN  /\ route.phase # "awaiting"
        /\ IF ~Truthy(division) \/ is_flex = Null \/ is_d2 = Null
              \/ ~Truthy(size_effective)
           THEN route' =
                    [phase |-> "done", params |-> params, calls |-> <<>>,
                     answer |-> Null,
                     response |->
                         [status |-> 400,
                          body |-> [error |-> <<"d","i","v","i","s","i","o","n",","," ","i","s","_","f","l","e","x",","," ","i","s","_","d","2",","," ","s","i","z","e","_","e","f","f","e","c","t","i","v","e"," ","a","r","e"," ","r","e","q","u","i","r","e","d">>]]]
           ELSE route' =
                    [phase |-> "awaiting", params |-> params,
                     calls |-> <<[name |-> "get_rankings_from_normalized",
                                  p_division |-> division,
                                  p_is_flex |-> is_flex = <<"t","r","u","e">>,
                                  p_is_d2 |-> is_d2 = <<"t","r","u","e">>,
                                  p_size_effective |-> size_effective,
                                  p_min_events |-> min_events,
                                  p_limit |-> ProcedureLimit]>>,
                     answer |-> Null,
                     response |-> Null]
        /\ UNCHANGED <<rankingsVars, teamSearch, gate, explorer>>

RouteGet == \E params \in RouteRequests : routeGet(params)

\* GET after its await: the procedure answered with res.
routeResolve(res) ==
    /\ route.phase = "awaiting"
    /\ route' =
           [route EXCEPT
               !.phase = "done",
               !.answer = res,
               !.response =
                   IF res.error # Null
                   THEN [status |-> 500, body |-> [error |-> res.error]]
                   ELSE [status |-> 200,
                         body |-> [rows |-> IF res.data = Null THEN <<>> ELSE res.data]]]
    /\ UNCHANGED <<rankingsVars, teamSearch, gate, explorer>>

RouteResolve == \E res \in ProcedureOutcomes : routeResolve(res)

\* ------------------------------------------------------------ results explorer
\* explorer holds the state of ResultsExplorerPage: its state hooks (rows,
\* error, loading, weekendOptions, weekendDate, level, age, d2Mode, flexMode,
\* size, search, teamFinalSizeMap), the rows of v_results_normalized in the
\* store, and how far its three loads are: weekendsLoad and sizeLoad are
\* "pending", "loaded" or "failed"; rowsPending tells whether the request of
\* the latest run of loadRows is unanswered (the responses of earlier runs
\* are dropped by their `cancelled` flag and change nothing).
SEASON_START == <<"2","0","2","5","-","1","2","-","0","1">>
ALL_WEEKENDS == <<"_","_","A","L","L","_","_">>

teamGamma == [program |-> <<"G","y","m">>, team |-> <<"G","a","m","m","a">>]
compNov == [event_id |-> <<"e","0">>, weekend_date |-> <<"2","0","2","5","-","1","1","-","1","5">>]
divSenior == <<"L","4"," ","S","e","n","i","o","r">>

exAlphaJan == ResultRow(teamAlpha, divJunior, compJan, <<"9","0">>, <<"M","e","d","i","u","m">>)
exAlphaFeb == ResultRow(teamAlpha, divSenior, compFeb, <<"8","8">>, <<"S","m","a","l","l">>)
exAlphaD2 == ResultRow(teamAlpha, divJuniorD2, compJan, <<"9","9">>, <<"L","a","r","g","e">>)
exBetaJan == ResultRow(teamBeta, divJunior, compJan, <<"9","4">>, Null)
exBetaJanLow == ResultRow(teamBeta, divJunior, compJan, <<"7","0">>, <<"M","e","d","i","u","m">>)
exBetaFeb == ResultRow(teamBeta, divJunior, compFeb, <<"8","5">>, <<"S","m","a","l","l">>)
exGammaJan == ResultRow(teamGamma, divJunior, compJan, <<"8","0">>, Null)
exGammaNov == ResultRow(teamGamma, divJunior, compNov, <<"7","5">>, <<"L","a","r","g","e">>)

ExplorerRows ==
    {exAlphaJan, exAlphaFeb, exAlphaD2, exBetaJan, exBetaJanLow, exBetaFeb,
     exGammaJan, exGammaNov}

\* The stores the page is run against.
ExplorerStores ==
    { <<exAlphaJan, exAlphaFeb, exAlphaD2, exBetaJan, exBetaJanLow, exBetaFeb,
        exGammaJan, exGammaNov>>,
      <<exBetaJanLow, exBetaFeb, exBetaJan, exAlphaJan>> }

ExplorerLevelOpts == {"All", "L3"}
ExplorerSearchOpts == {<<>>, <<"g","a">>}
ExplorerSizeOpts == {<<"A","n","y">>, <<"S","m","a","l","l">>, <<"M","e","d","i","u","m">>}
ExplorerAgeOpts == {<<"A","l","l">>, <<"S","e","n","i","o","r">>}
ExplorerD2Modes == {"Any", "NonD2Only"}
ExplorerFlexModes == {"Any", "FlexOnly"}

\* A row's weekend_date column as text.
weekendDateOf(r) == Str(Get(r, "weekend_date"))

\* .order("weekend_date", { ascending: false }); rows of one weekend stay in
\* the order of the store.
RECURSIVE insertRowByWeekendDesc(_, _)
insertRowByWeekendDesc(sorted, r) ==
    IF sorted = <<>> THEN <<r>>
    ELSE IF localeCompare(weekendDateOf(r), weekendDateOf(Head(sorted))) > 0
    THEN <<r>> \o sorted
    ELSE <<Head(sorted)>> \o insertRowByWeekendDesc(Tail(sorted), r)

RECURSIVE orderByWeekendDesc(_)
orderByWeekendDesc(rs) ==
    IF rs = <<>> THEN <<>>
    ELSE insertRowByWeekendDesc(orderByWeekendDesc(SubSeq(rs, 1, Len(rs) - 1)),
                                rs[Len(rs)])

\* .gte("weekend_date", SEASON_START)
inSeason(r) ==
    Get(r, "weekend_date") # Null /\ localeCompare(weekendDateOf(r), SEASON_START) >= 0

\* column ilike `%text%`
ilikeColumn(r, column, text) ==
    includes(toLowerCase(Str(Get(r, column))), toLowerCase(text))

\* s.replace(/,/g, "")
RECURSIVE withoutCommas(_)
withoutCommas(s) ==
    IF s = <<>> THEN <<>>
    ELSE (IF Head(s) = "," THEN <<>> ELSE <<Head(s)>>) \o withoutCommas(Tail(s))

\* division ilike `${level}%`
startsWithLevel(r, level) ==
    LET d == toLowerCase(Str(Get(r, "division")))
        l == toLowerCase(level)
    IN  Len(d) >= Len(l) /\ SubSeq(d, 1, Len(l)) = l

\* The rows the query of loadRows selects from the store.
loadRowsQuery(store, weekendDate, level, search) ==
    LET s == trim(search)
        esc == withoutCommas(s)
        levelText == IF level = "L3" THEN <<"L","3">> ELSE <<>>
        Selected(r) ==
            /\ IF weekendDate # ALL_WEEKENDS /\ weekendDate # <<>>
               THEN Get(r, "weekend_date") = weekendDate
               ELSE inSeason(r)
            /\ level # "All" => startsWithLevel(r, levelText)
            /\ Len(s) >= 2 =>
                   \/ ilikeColumn(r, "team", esc)
                   \/ ilikeColumn(r, "program", esc)
                   \/ ilikeColumn(r, "division", esc)
                   \/ ilikeColumn(r, "event_name", esc)
    IN  orderByWeekendDesc(SelectSeq(store, Selected))

\* The columns the size-history query selects.
SizeHistoryColumns ==
    {"team_id", "program_id", "program", "team", "weekend_date", "division",
     "age_bucket", "is_flex", "is_d2", "size_effective", "size_raw"}

projectRow(r) == [c \in DOMAIN r \cap SizeHistoryColumns |-> r[c]]

RECURSIVE projectRows(_)
projectRows(rs) ==
    IF rs = <<>> THEN <<>> ELSE <<projectRow(Head(rs))>> \o projectRows(Tail(rs))

\* The rows the query of loadSizeHistory selects from the store.
sizeHistoryQuery(store) == projectRows(orderByWeekendDesc(SelectSeq(store, inSeason)))

\* The weekends of v_available_weekends, ascending (the weekends the store
\* has rows of).
RECURSIVE ascendingWeekends(_)
ascendingWeekends(ws) ==
    IF ws = {} THEN <<>>
    ELSE LET w == CHOOSE x \in ws : \A y \in ws : localeCompare(x, y) <= 0
         IN  <<w>> \o ascendingWeekends(ws \ {w})

availableWeekends(store) ==
    ascendingWeekends({weekendDateOf(store[i]) : i \in 1..Len(store)} \ {<<>>})

\* teamId || programId || normalize(program)
stableTeamKeyOf(r, program) ==
    LET teamId == trim(Str(Get(r, "team_id")))
        programId == trim(Str(Get(r, "program_id")))
    IN  IF teamId # <<>> THEN teamId
        ELSE IF programId # <<>> THEN programId
        ELSE normalize(program)

\* One step of the loop of loadSizeHistory over its data: the history of
\* every key `${stableTeamKey}__${normalize(team)}__${track}`.
addSizeHistory(hist, r) ==
    LET program == trim(Str(Get(r, "program")))
        team == trim(Str(Get(r, "team")))
        meta == parseMeta(r)
        track == buildTrackKey(meta)
        key == stableTeamKeyOf(r, program) \o <<"_","_">> \o normalize(team) \o <<"_","_">> \o track
        weekend == trim(Str(Get(r, "weekend_date")))
        item == [weekend |-> weekend, size |-> meta.size]
        hits == {i \in 1..Len(hist) : hist[i].key = key}
    IN  IF program = <<>> \/ team = <<>> \/ track = <<>> THEN hist
        ELSE IF hits = {} THEN Append(hist, [key |-> key, arr |-> <<item>>])
        ELSE LET at == CHOOSE i \in hits : TRUE
             IN  [hist EXCEPT ![at].arr = Append(@, item)]

RECURSIVE bucketToHist(_, _)
bucketToHist(hist, data) ==
    IF data = <<>> THEN hist
    ELSE LET next == addSizeHistory(hist, Head(data))
         IN  IF Len(next) < Len(hist) THEN next ELSE bucketToHist(next, Tail(data))

\* finalMap: every history sorted by weekend descending and resolved.
RECURSIVE finalMapOf(_)
finalMapOf(hist) ==
    IF hist = <<>> THEN <<>>
    ELSE <<[key |-> Head(hist).key,
            size |-> resolveTeamSize(sortByWeekendDesc(Head(hist).arr))]>>
         \o finalMapOf(Tail(hist))

\* teamFinalSizeMap.get(key) ?? null
finalSizeOf(sizeMap, key) ==
    LET hits == {i \in 1..Len(sizeMap) : sizeMap[i].key = key}
    IN  IF hits = {} THEN Null ELSE sizeMap[CHOOSE i \in hits : TRUE].size

\* What the dedupe loop of `derived` reads from a row.
explorerRead(r) ==
    LET program == trim(Str(pick(r, programKeys, <<>>)))
        team == trim(Str(pick(r, teamKeys, <<>>)))
        track == buildTrackKey(parseMeta(r))
        stableTeamKey == stableTeamKeyOf(r, program)
        teamKey == IF stableTeamKey # <<>> THEN stableTeamKey
                   ELSE normalize(program) \o <<"_","_">> \o normalize(team)
    IN  [program |-> program,
         team |-> team,
         track |-> track,
         stableTeamKey |-> stableTeamKey,
         sizeMapKey |-> stableTeamKey \o <<"_","_">> \o normalize(team) \o <<"_","_">> \o track,
         compKey |-> compKeyOf(r),
         key |-> teamKey \o <<"_","_">> \o compKeyOf(r),
         score |-> toNum(pick(r, eventScoreKeys, <<"0">>)),
         rowSize |-> parseMeta(r).size]

ExplorerReads == [r \in ExplorerRows |-> explorerRead(r)]

\* Mutant of finalSizeFor: the size of the row itself.
finalSizeOfRow(sizeMap, r) == ExplorerReads[r].rowSize

\* The size `derived` uses for a row: the final size of its team.
finalSizeFor(sizeMap, r) == finalSizeOf(sizeMap, ExplorerReads[r].sizeMapKey)

\* One step of the dedupe loop: bestByTeamEvent after the row r.
addBest(best, r, sizeMap, size) ==
    LET x == ExplorerReads[r]
        finalSize == finalSizeFor(sizeMap, r)
        bucket == IF Truthy(finalSize) THEN x.track \o <<" ">> \o finalSize ELSE x.track
        entry == [key |-> x.key, row |-> r, bucket |-> bucket, score |-> x.score]
        hits == {i \in 1..Len(best) : best[i].key = x.key}
    IN  IF x.program = <<>> \/ x.team = <<>> \/ x.track = <<>> THEN best
        ELSE IF size # <<"A","n","y">>
                /\ (~Truthy(finalSize) \/ normalize(finalSize) # normalize(size))
        THEN best
        ELSE IF hits = {} THEN Append(best, entry)
        ELSE LET at == CHOOSE i \in hits : TRUE
             IN  IF x.score > best[at].score THEN [best EXCEPT ![at] = entry]
                 ELSE best

RECURSIVE bestByTeamEvent(_, _, _, _)
bestByTeamEvent(best, rs, sizeMap, size) ==
    IF rs = <<>> THEN best
    ELSE LET next == addBest(best, Head(rs), sizeMap, size)
         IN  IF Len(next) < Len(best) THEN next
             ELSE bestByTeamEvent(next, Tail(rs), sizeMap, size)

\* out.sort by event score descending (stable).
RECURSIVE insertByScore(_, _)
insertByScore(sorted, x) ==
    IF sorted = <<>> THEN <<x>>
    ELSE IF x.score > Head(sorted).score THEN <<x>> \o sorted
    ELSE <<Head(sorted)>> \o insertByScore(Tail(sorted), x)

RECURSIVE sortByScoreDesc(_)
sortByScoreDesc(s) ==
    IF s = <<>> THEN <<>>
    ELSE insertByScore(sortByScoreDesc(SubSeq(s, 1, Len(s) - 1)), s[Len(s)])

\* 4a) the row-level filter (age, D2, flex, local search): the code is that
\* of the rankings page's filteredRows.
explorerFiltered(e) == filteredRowsOf(e.rows, e)

\* The display rows of the page in state e.
derivedOf(e) ==
    sortByScoreDesc(bestByTeamEvent(<<>>, explorerFiltered(e), e.teamFinalSizeMap, e.size))

derived == derivedOf(explorer)

\* After mount, against a store: the three loads are in flight.
ExplorerMounted(store) ==
    [store |-> store,
     rows |-> <<>>,
     error |-> Null,
     loading |-> TRUE,
     weekendOptions |-> <<>>,
     weekendDate |-> ALL_WEEKENDS,
     level |-> "All",
     age |-> <<"A","l","l">>,
     d2Mode |-> "Any",
     flexMode |-> "Any",
     size |-> <<"A","n","y">>,
     search |-> <<>>,
     teamFinalSizeMap |-> <<>>,
     weekendsLoad |-> "pending",
     sizeLoad |-> "pending",
     rowsPending |-> TRUE]

\* loadWeekends after its await.
loadWeekendsResolve(failed) ==
    /\ explorer.weekendsLoad = "pending"
    /\ explorer' =
           IF failed
           THEN [explorer EXCEPT !.weekendsLoad = "failed", !.error = ErrValue]
           ELSE [explorer EXCEPT !.weekendsLoad = "loaded",
                                 !.weekendOptions = availableWeekends(explorer.store)]
    /\ UNCHANGED <<rankingsVars, teamSearch, gate, route>>

LoadWeekendsResolve == \E failed \in BOOLEAN : loadWeekendsResolve(failed)

\* Mutant of loadSizeHistoryResolve: a failure is shown as the page's error.
loadSizeHistoryFailingHard(failed) ==
    /\ explorer.sizeLoad = "pending"
    /\ explorer' =
           IF failed
           THEN [explorer EXCEPT !.sizeLoad = "failed", !.teamFinalSizeMap = <<>>,
                                 !.error = ErrValue]
           ELSE [explorer EXCEPT
                    !.sizeLoad = "loaded",
                    !.teamFinalSizeMap =
                        finalMapOf(bucketToHist(<<>>, sizeHistoryQuery(explorer.store)))]
    /\ UNCHANGED <<rankingsVars, teamSearch, gate, route>>

\* loadSizeHistory after its await.
loadSizeHistoryResolve(failed) ==
    /\ explorer.sizeLoad = "pending"
    /\ explorer' =
           IF failed
           THEN [explorer EXCEPT !.sizeLoad = "failed", !.teamFinalSizeMap = <<>>]
           ELSE [explorer EXCEPT
                    !.sizeLoad = "loaded",
                    !.teamFinalSizeMap =
                        finalMapOf(bucketToHist(<<>>, sizeHistoryQuery(explorer.store)))]
    /\ UNCHANGED <<rankingsVars, teamSearch, gate, route>>

LoadSizeHistoryResolve == \E failed \in BOOLEAN : loadSizeHistoryResolve(failed)

\* A change of weekendDate, level or search runs loadRows again, up to its
\* await; e is the page's state with the new value.
loadRowsStart(e) ==
    /\ explorer' = [e EXCEPT !.loading = TRUE, !.error = Null, !.rowsPending = TRUE]
    /\ UNCHANGED <<rankingsVars, teamSearch, gate, route>>

\* loadRows after its await, for the latest run.
loadRowsResolve(failed) ==
    /\ explorer.rowsPending
    /\ explorer' =
           IF failed
           THEN [explorer EXCEPT !.error = ErrValue, !.rows = <<>>,
                                 !.loading = FALSE, !.rowsPending = FALSE]
           ELSE [explorer EXCEPT
                    !.rows = loadRowsQuery(explorer.store, explorer.weekendDate,
                                           explorer.level, explorer.search),
                    !.loading = FALSE, !.rowsPending = FALSE]
    /\ UNCHANGED <<rankingsVars, teamSearch, gate, route>>

LoadRowsResolve == \E failed \in BOOLEAN : loadRowsResolve(failed)

setWeekendDate ==
    \E v \in {ALL_WEEKENDS} \cup Range(explorer.weekendOptions) :
        /\ v # explorer.weekendDate
        /\ loadRowsStart([explorer EXCEPT !.weekendDate = v])

ExplorerSetLevel ==
    \E v \in ExplorerLevelOpts :
        /\ v # explorer.level
        /\ loadRowsStart([explorer EXCEPT !.level = v])

ExplorerSetSearch ==
    \E v \in ExplorerSearchOpts :
        /\ v # explorer.search
        /\ loadRowsStart([explorer EXCEPT !.search = v])

ExplorerSetAge ==
    /\ \E v \in ExplorerAgeOpts :
           /\ v # explorer.age
           /\ explorer' = [explorer EXCEPT !.age = v]
    /\ UNCHANGED <<rankingsVars, teamSearch, gate, route>>

ExplorerSetD2Mode ==
    /\ \E v \in ExplorerD2Modes :
           /\ v # explorer.d2Mode
           /\ explorer' = [explorer EXCEPT !.d2Mode = v]
    /\ UNCHANGED <<rankingsVars, teamSearch, gate, route>>

ExplorerSetFlexMode ==
    /\ \E v \in ExplorerFlexModes :
           /\ v # explorer.flexMode
           /\ explorer' = [explorer EXCEPT !.flexMode = v]
    /\ UNCHANGED <<rankingsVars, teamSearch, gate, route>>

ExplorerSetSize ==
    /\ \E v \in ExplorerSizeOpts :
           /\ v # explorer.size
           /\ explorer' = [explorer EXCEPT !.size = v]
    /\ UNCHANGED <<rankingsVars, teamSearch, gate, route>>

\* The other pages and the route as they are while the rankings page is the
\* one in use.
OthersIdle ==
    /\ teamSearch = TeamSearchMounted
    /\ gate = GateMounted(Null)
    /\ route = RouteIdle
    /\ explorer = ExplorerMounted(<<>>)

\* ------------------------------------------------------------ the page
\* reqs[i] is the i-th run of the fetch effect: the query it sent and the
\* `cancelled` flag of its closure.  arrivals is the history of responses in
\* arrival order: whose response it was, which request was the latest one
\* then, whether it was applied to the state, whether it was an error, and
\* how many rows it carried.

\* The query loadRows builds from the filters.
queryOf(f) ==
    [level |-> f.level,
     search |-> IF Len(trim(f.search)) >= 2 THEN trim(f.search) ELSE <<>>]

\* The effect's cleanup: the closure of the run in flight gets cancelled.
cleanup(rs) ==
    IF rs = <<>> THEN rs ELSE [rs EXCEPT ![Len(rs)].cancelled = TRUE]

\* The filters change to f: when level or search changed, the effect is
\* cleaned up and run again (loadRows up to its await).
applyFilters(f) ==
    /\ filters' = f
    /\ IF f.level # filters.level \/ f.search # filters.search
       THEN /\ Len(reqs) < MaxReq
            /\ reqs' = Append(cleanup(reqs), [query |-> queryOf(f), cancelled |-> FALSE])
            /\ loading' = TRUE
            /\ error' = Null
       ELSE UNCHANGED <<reqs, loading, error>>
    /\ UNCHANGED <<rows, arrivals>>
    /\ UNCHANGED otherVars

\* setFilter(key, value), one action for each control of the page.
SetLevel ==
    \E v \in LevelOpts :
        /\ v # filters.level
        /\ applyFilters([filters EXCEPT !.level = v])

SetSearch ==
    \E v \in SearchOpts :
        /\ v # filters.search
        /\ applyFilters([filters EXCEPT !.search = v])

\* setFilter("search", v) with a text of one character.
SetShortSearch ==
    \E v \in ShortSearchOpts :
        /\ v # filters.search
        /\ applyFilters([filters EXCEPT !.search = v])

SetSize ==
    \E v \in SizeOpts :
        /\ v # filters.size
        /\ applyFilters([filters EXCEPT !.size = v])

SetAge ==
    \E v \in AgeOpts :
        /\ v # filters.age
        /\ applyFilters([filters EXCEPT !.age = v])

SetD2Mode ==
    \E v \in D2Modes :
        /\ v # filters.d2Mode
        /\ applyFilters([filters EXCEPT !.d2Mode = v])

SetFlexMode ==
    \E v \in FlexModes :
        /\ v # filters.flexMode
        /\ applyFilters([filters EXCEPT !.flexMode = v])

ToggleTwoPlus ==
    /\ filters.requireTwoPlus \in BOOLEAN
    /\ applyFilters([filters EXCEPT !.requireTwoPlus = ~filters.requireTwoPlus])

clearFilters ==
    /\ filters # DEFAULT_FILTERS
    /\ applyFilters(DEFAULT_FILTERS)

\* Mutants of resolveRequest: the `cancelled` check is missing; a failed
\* fetch keeps the rows.
resolveIgnoringCancelled(i, res) ==
    /\ \A k \in 1..Len(arrivals) : arrivals[k].id # i
    /\ arrivals' = Append(arrivals,
                          [id |-> i, latest |-> Len(reqs),
                           applied |-> TRUE,
                           failed |-> res.error # Null,
                           count |-> Len(res.data)])
    /\ IF res.error # Null
       THEN error' = res.error /\ rows' = <<>>
       ELSE error' = Null /\ rows' = res.data
    /\ loading' = FALSE
    /\ UNCHANGED <<filters, reqs>>
    /\ UNCHANGED otherVars

resolveKeepingRows(i, res) ==
    /\ \A k \in 1..Len(arrivals) : arrivals[k].id # i
    /\ arrivals' = Append(arrivals,
                          [id |-> i, latest |-> Len(reqs),
                           applied |-> ~reqs[i].cancelled,
                           failed |-> res.error # Null,
                           count |-> Len(res.data)])
    /\ IF reqs[i].cancelled
       THEN UNCHANGED <<rows, error, loading>>
       ELSE /\ IF res.error # Null
               THEN error' = res.error /\ UNCHANGED rows
               ELSE error' = Null /\ rows' = res.data
            /\ loading' = FALSE
    /\ UNCHANGED <<filters, reqs>>
    /\ UNCHANGED otherVars

\* Mutant of resolveRequest: setLoading(false) runs before the `cancelled`
\* check.
resolveClearingLoading(i, res) ==
    /\ \A k \in 1..Len(arrivals) : arrivals[k].id # i
    /\ arrivals' = Append(arrivals,
                          [id |-> i, latest |-> Len(reqs),
                           applied |-> ~reqs[i].cancelled,
                           failed |-> res.error # Null,
                           count |-> Len(res.data)])
    /\ IF reqs[i].cancelled
       THEN UNCHANGED <<rows, error>>
       ELSE IF res.error # Null
            THEN error' = res.error /\ rows' = <<>>
            ELSE error' = Null /\ rows' = res.data
    /\ loading' = FALSE
    /\ UNCHANGED <<filters, reqs>>
    /\ UNCHANGED otherVars

\* loadRows after its await, for the i-th run of the effect.
resolveRequest(i, res) ==
    /\ \A k \in 1..Len(arrivals) : arrivals[k].id # i
    /\ arrivals' = Append(arrivals,
                          [id |-> i, latest |-> Len(reqs),
                           applied |-> ~reqs[i].cancelled,
                           failed |-> res.error # Null,
                           count |-> Len(res.data)])
    /\ IF reqs[i].cancelled
       THEN UNCHANGED <<rows, error, loading>>
       ELSE /\ IF res.error # Null
               THEN error' = res.error /\ rows' = <<>>
               ELSE error' = Null /\ rows' = res.data
            /\ loading' = FALSE
    /\ UNCHANGED <<filters, reqs>>
    /\ UNCHANGED otherVars

Deliver == \E i \in 1..Len(reqs) : \E res \in Outcomes : resolveRequest(i, res)

\* After mount: default filters, nothing loaded, the first fetch in flight.
Init ==
    /\ filters = DEFAULT_FILTERS
    /\ rows = <<>>
    /\ loading = TRUE
    /\ error = Null
    /\ reqs = <<[query |-> queryOf(DEFAULT_FILTERS), cancelled |-> FALSE]>>
    /\ arrivals = <<>>
    /\ OthersIdle

Next ==
    \/ SetLevel
    \/ SetSearch
    \/ SetSize
    \/ ToggleTwoPlus
    \/ clearFilters
    \/ Deliver

Spec == Init /\ [][Next]_vars

\* The fetch race alone, with every response arriving in the end: a request
\* sent to the store is answered, with data or with an error value.
NextFetch ==
    \/ SetLevel
    \/ SetSearch
    \/ Deliver

SpecFetch == Init /\ [][NextFetch]_vars /\ WF_vars(Deliver)

\* The aggregation over every result set: the state after the first fetch
\* resolved with some rows, then changes of the team-level filters (which
\* recompute the ranking without fetching).
InitRank ==
    /\ filters = DEFAULT_FILTERS
    /\ rows \in ResultSets
    /\ loading = FALSE
    /\ error = Null
    /\ reqs = <<[query |-> queryOf(DEFAULT_FILTERS), cancelled |-> FALSE]>>
    /\ arrivals = <<[id |-> 1, latest |-> 1, applied |-> TRUE, failed |-> FALSE,
                     count |-> Len(rows)]>>
    /\ OthersIdle

NextRank ==
    \/ SetSize
    \/ ToggleTwoPlus

SpecRank == InitRank /\ [][NextRank]_vars

\* The state after the first fetch resolved with the rows rs.
Loaded(rs) ==
    /\ filters = DEFAULT_FILTERS
    /\ rows = rs
    /\ loading = FALSE
    /\ error = Null
    /\ reqs = <<[query |-> queryOf(DEFAULT_FILTERS), cancelled |-> FALSE]>>
    /\ arrivals = <<[id |-> 1, latest |-> 1, applied |-> TRUE, failed |-> FALSE,
                     count |-> Len(rs)]>>
    /\ OthersIdle

\* The aggregation over rows that name their team and their competition in
\* every way the loop distinguishes.
InitIdentity == \E rs \in IdentitySets : Loaded(rs)

NextIdentity ==
    \/ SetSize
    \/ ToggleTwoPlus

SpecIdentity == InitIdentity /\ [][NextIdentity]_vars

\* parseMeta and the row-level filters over rows of every division wording.
InitParse == \E rs \in ParseSets : Loaded(rs)

NextParse ==
    \/ SetAge
    \/ SetD2Mode
    \/ SetFlexMode

SpecParse == InitParse /\ [][NextParse]_vars

\* The chart and the table over result sets of up to MaxTeams teams.
InitTop == \E rs \in TopSets : Loaded(rs)

NextTop ==
    \/ SetSize
    \/ ToggleTwoPlus

SpecTop == InitTop /\ [][NextTop]_vars

\* The local search over loaded rows: the text changes, the rows on the page
\* stay (the query sent again is the same, the text being too short for the
\* server-side search).
InitSearch == \E rs \in IdentitySets : Loaded(rs)

NextSearch ==
    \/ SetShortSearch
    \/ ToggleTwoPlus

SpecSearch == InitSearch /\ [][NextSearch]_vars

\* The flag filters over rows of one team in every flag track.
InitFlags == \E rs \in FlagSets : Loaded(rs)

NextFlags ==
    \/ SetD2Mode
    \/ SetFlexMode
    \/ ToggleTwoPlus

SpecFlags == InitFlags /\ [][NextFlags]_vars

\* The team search page: edits of the query and responses in any order.
RankingsIdle ==
    /\ filters = DEFAULT_FILTERS
    /\ rows = <<>>
    /\ loading = TRUE
    /\ error = Null
    /\ reqs = <<[query |-> queryOf(DEFAULT_FILTERS), cancelled |-> FALSE]>>
    /\ arrivals = <<>>

InitTeamSearch ==
    /\ RankingsIdle
    /\ teamSearch = TeamSearchMounted
    /\ gate = GateMounted(Null)
    /\ route = RouteIdle
    /\ explorer = ExplorerMounted(<<>>)

NextTeamSearch ==
    \/ SetQuery
    \/ SearchDeliver

SpecTeamSearch == InitTeamSearch /\ [][NextTeamSearch]_vars

\* The comp-builder gate, mounted with or without an email in local storage.
InitGate ==
    /\ RankingsIdle
    /\ teamSearch = TeamSearchMounted
    /\ gate \in {GateMounted(Null), GateMounted(<<"c","y","@","x",".","i","o">>)}
    /\ route = RouteIdle
    /\ explorer = ExplorerMounted(<<>>)

NextGate ==
    \/ TypeEmail
    \/ UnlockStart
    \/ UnlockResolve
    \/ Reset

SpecGate == InitGate /\ [][NextGate]_vars

\* The rankings API route, one request after the other.
InitRoute ==
    /\ RankingsIdle
    /\ teamSearch = TeamSearchMounted
    /\ gate = GateMounted(Null)
    /\ route = RouteIdle
    /\ explorer = ExplorerMounted(<<>>)

NextRoute ==
    \/ RouteGet
    \/ RouteResolve

SpecRoute == InitRoute /\ [][NextRoute]_vars

\* The results explorer against each of the stores.
InitExplorer ==
    /\ RankingsIdle
    /\ teamSearch = TeamSearchMounted
    /\ gate = GateMounted(Null)
    /\ route = RouteIdle
    /\ explorer \in {ExplorerMounted(s) : s \in ExplorerStores}

NextExplorer ==
    \/ LoadWeekendsResolve
    \/ LoadSizeHistoryResolve
    \/ LoadRowsResolve
    \/ setWeekendDate
    \/ ExplorerSetLevel
    \/ ExplorerSetSearch
    \/ ExplorerSetAge
    \/ ExplorerSetD2Mode
    \/ ExplorerSetFlexMode
    \/ ExplorerSetSize

SpecExplorer == InitExplorer /\ [][NextExplorer]_vars

\* ============================================================ claims
\* What the claims speak of, stated over sets of input rows rather than by
\* the loop. The facts of every filtered row (read with the program's own
\* readers) are gathered once per state; F is that sequence, S a set of row
\* indexes.
hasFiniteScore(r) == NumberIsFinite(pick(r, eventScoreKeys, Null))

\* A column is usable when it is present, non-null and non-blank.
Usable(r, k) == k \in DOMAIN r /\ r[k] # Null /\ trim(r[k]) # <<>>

\* The value of the first usable column of a list, else the fallback.
FirstUsable(r, keys, fallback) ==
    LET hits == {i \in 1..Len(keys) : Usable(r, keys[i])}
    IN  IF hits = {} THEN fallback
        ELSE r[keys[CHOOSE i \in hits : \A j \in hits : i <= j]]

\* The team of a row as the claims name it: its team_id when usable, else
\* its program (program_id when usable, else the normalized program name)
\* and its normalized team name.
claimedTeam(r) ==
    LET teamId == trim(Str(Get(r, "team_id")))
        programId == trim(Str(Get(r, "program_id")))
        programName == FirstUsable(r, programKeys, <<>>)
        teamName == FirstUsable(r, teamKeys, <<>>)
    IN  IF teamId # <<>> THEN [by |-> "team_id", value |-> <<teamId>>]
        ELSE [by |-> "names",
              value |-> <<IF programId # <<>> THEN programId
                          ELSE normalize(programName),
                          normalize(teamName)>>]

\* The competition of a row as the claims name it: the tier of the
\* highest-priority identification the row has, and its trimmed value.
compIdentity(r) ==
    LET id == trim(FirstUsable(r, eventIdKeys, <<>>))
        url == trim(FirstUsable(r, sourceUrlKeys, <<>>))
        name == trim(FirstUsable(r, eventNameKeys, <<>>))
        wk == trim(FirstUsable(r, weekendKeys, <<>>))
    IN  IF id # <<>> THEN [tier |-> "event", value |-> <<id>>]
        ELSE IF url # <<>> THEN [tier |-> "url", value |-> <<url>>]
        ELSE [tier |-> "name", value |-> <<name, wk>>]

weekendOf(r) == trim(Str(pick(r, weekendKeys, <<>>)))

rowFact(r) ==
    [ranked   |-> isRanked(r),
     identity |-> teamIdentityOf(r),
     track    |-> trackOf(r),
     group    |-> groupKeyOf(r),
     comp     |-> compKeyOf(r),
     score    |-> scoreOf(r),
     finite   |-> hasFiniteScore(r),
     size     |-> parseMeta(r).size,
     weekend  |-> weekendOf(r),
     program  |-> trim(Str(pick(r, programKeys, <<>>))),
     team     |-> trim(Str(pick(r, teamKeys, <<>>))),
     compId   |-> compIdentity(r),
     teamId   |-> claimedTeam(r),
     noParts  |-> LET m == parseMeta(r)
                  IN  ~Truthy(m.level) /\ ~Truthy(m.age) /\ ~m.isFlex /\ ~m.isD2]

FactOfRow == [r \in KnownRows |-> rowFact(r)]

RECURSIVE factsOf(_)
factsOf(rs) ==
    IF rs = <<>> THEN <<>> ELSE <<FactOfRow[Head(rs)]>> \o factsOf(Tail(rs))

RowFacts == factsOf(filteredRows)

RankedRows(F) == {i \in 1..Len(F) : F[i].ranked}

RowsOfGroup(F, k) == {i \in RankedRows(F) : F[i].group = k}

KeysIn(F, S) == {F[i].comp : i \in S}

RowsOfComp(F, S, c) == {i \in S : F[i].comp = c}

MaxScore(F, S) ==
    CHOOSE m \in {F[i].score : i \in S} : \A i \in S : F[i].score <= m

RECURSIVE SumOfBest(_, _, _)
SumOfBest(F, S, cs) ==
    IF cs = {} THEN 0
    ELSE LET c == CHOOSE x \in cs : TRUE
         IN  MaxScore(F, RowsOfComp(F, S, c)) + SumOfBest(F, S, cs \ {c})

\* avg is the mean, over the competition keys of the rows S, of the best
\* score of each key.
AvgIsMeanOfBest(t, F, S) ==
    LET cs == KeysIn(F, S)
    IN  /\ cs # {}
        /\ t.avg.num * Cardinality(cs) = t.avg.den * SumOfBest(F, S, cs)

\* size is the size of a most recent row of S that has one; null iff none has.
SizedRows(F, S) == {i \in S : Truthy(F[i].size)}

SizeIsLatestKnown(size, F, S) ==
    LET Z == SizedRows(F, S)
    IN  /\ (size = Null) <=> (Z = {})
        /\ Z # {} =>
               \E i \in Z :
                   /\ F[i].size = size
                   /\ \A j \in Z : localeCompare(F[j].weekend, F[i].weekend) <= 0

\* C1: every team row of the ranking has avg equal to the arithmetic mean,
\* over the distinct competition keys of its (team identity, track) group, of
\* the maximum score among the group's rows that share the key.
C1_AvgIsMeanOfBestPerCompetition ==
    LET F == RowFacts
        T == teamRankings
    IN  \A p \in 1..Len(T) : AvgIsMeanOfBest(T[p], F, RowsOfGroup(F, T[p].key))

\* A ranked team with two competitions, one of them scored in two rounds
\* whose lower score comes later in the input.
C1_Witness ==
    LET F == RowFacts
        T == teamRankings
    IN  \E p \in 1..Len(T) :
            LET S == RowsOfGroup(F, T[p].key)
            IN  /\ Cardinality(KeysIn(F, S)) >= 2
                /\ \E i, j \in S :
                       /\ i < j
                       /\ F[i].comp = F[j].comp
                       /\ F[i].score > F[j].score

\* C2: a row whose score is not a finite number is skipped by the dedup step:
\* it adds no competition entry to its group, does not increase comps and
\* contributes no zero to the average.
C2_NonNumericScoreSkipped ==
    LET F == RowFacts
        T == teamRankings
    IN  \A p \in 1..Len(T) :
            LET S == {i \in RowsOfGroup(F, T[p].key) : F[i].finite}
            IN  /\ T[p].comps = Cardinality(KeysIn(F, S))
                /\ AvgIsMeanOfBest(T[p], F, S)

\* C3: every group holds exactly one retained score per distinct competition
\* key, the maximum over the group's rows with that key, and comps is the
\* number of distinct competition keys, whatever the number and the order of
\* the rows of one competition.
C3_OneBestScorePerCompetition ==
    LET F == RowFacts
        G == groups
        A == allTeamRows
    IN  \A g \in 1..Len(G) :
            LET S == RowsOfGroup(F, G[g].key)
                cs == G[g].compScores
            IN  /\ \A a, b \in 1..Len(cs) : cs[a].key = cs[b].key => a = b
                /\ {cs[a].key : a \in 1..Len(cs)} = KeysIn(F, S)
                /\ \A a \in 1..Len(cs) :
                       cs[a].score = MaxScore(F, RowsOfComp(F, S, cs[a].key))
                /\ A[g].comps = Cardinality(KeysIn(F, S))

\* Three rounds of one competition, the best of them first, counted once.
C3_Witness ==
    LET F == RowFacts
        G == groups
        A == allTeamRows
    IN  \E g \in 1..Len(G) :
            LET S == RowsOfGroup(F, G[g].key)
            IN  /\ Cardinality(S) >= 3
                /\ Cardinality(KeysIn(F, S)) = 1
                /\ A[g].comps = 1
                /\ \E i, j \in S : i < j /\ F[i].score > F[j].score

\* C4: whatever the sequence of level/search changes and the arrival order of
\* the responses, rows and error are only written by the response to the most
\* recently issued request; the response of a superseded request is
\* discarded and never overwrites what a later request produced.
C4_OnlyLatestResponseWrites ==
    \A k \in 1..Len(arrivals) :
        /\ arrivals[k].applied <=> (arrivals[k].id = arrivals[k].latest)
        /\ \A j \in 1..(k - 1) :
               arrivals[j].applied /\ arrivals[k].applied
                   => arrivals[j].id < arrivals[k].id

\* The response of a superseded request arrives after the response of a
\* later request was applied, and is discarded.
C4_Witness ==
    \E j, k \in 1..Len(arrivals) :
        /\ j < k
        /\ arrivals[j].applied
        /\ arrivals[j].id > arrivals[k].id
        /\ ~arrivals[k].applied

\* C5: when the response to the current fetch carries an error, the error is
\* stored and the loaded rows become the empty list, so the ranking is empty:
\* the ranking shown before the failed fetch is not kept.
C5_ErrorEmptiesRanking ==
    /\ error # Null => rows = <<>> /\ teamRankings = <<>>
    /\ (/\ arrivals # <<>>
        /\ arrivals[Len(arrivals)].id = Len(reqs)
        /\ arrivals[Len(arrivals)].failed)
           => error # Null /\ rows = <<>> /\ teamRankings = <<>>

\* Rows were loaded, then the next fetch failed.
C5_Witness ==
    /\ Len(arrivals) >= 2
    /\ arrivals[Len(arrivals) - 1].applied
    /\ arrivals[Len(arrivals) - 1].count > 0
    /\ arrivals[Len(arrivals)].applied
    /\ arrivals[Len(arrivals)].failed
    /\ error # Null

\* C6: the resolved size of a group is the size on its most recent row (by
\* weekend, descending) that has a size, whatever the order of the input
\* rows; it is null exactly when no row of the group has a size.
C6_SizeIsLatestKnown ==
    LET F == RowFacts
        A == allTeamRows
    IN  \A g \in 1..Len(A) :
            SizeIsLatestKnown(A[g].size_final, F, RowsOfGroup(F, A[g].key))

\* A group whose older sized row comes first in the input: the size of the
\* later weekend is the resolved one.
C6_Witness ==
    LET F == RowFacts
        A == allTeamRows
    IN  \E g \in 1..Len(A) :
            \E i, j \in SizedRows(F, RowsOfGroup(F, A[g].key)) :
                /\ i < j
                /\ localeCompare(F[i].weekend, F[j].weekend) < 0
                /\ F[i].size # F[j].size
                /\ A[g].size_final = F[j].size

\* C7: under a concrete size filter every team of the ranking has a resolved
\* size equal to the filter value; a team whose resolved size is null never
\* appears, however many rows or competitions it has.
C7_SizeFilterExact ==
    filters.size # <<"A","n","y">> =>
        LET T == teamRankings
        IN  \A p \in 1..Len(T) :
                /\ T[p].size_final # Null
                /\ T[p].size_final = filters.size

\* A concrete size filter keeps a team and drops a team of unresolved size
\* that has two competitions.
C7_Witness ==
    /\ filters.size # <<"A","n","y">>
    /\ teamRankings # <<>>
    /\ LET A == allTeamRows
       IN  \E g \in 1..Len(A) : A[g].size_final = Null /\ A[g].comps >= 2

\* C8: with the 2+ competitions requirement on (the default) every team of
\* the ranking has at least 2 distinct competitions, so a team with exactly 1
\* is excluded; with it off a team with exactly 1 is included, subject to the
\* size filter.
C8_TwoPlusRequirement ==
    LET F == RowFacts
        T == teamRankings
        A == allTeamRows
    IN  /\ DEFAULT_FILTERS.requireTwoPlus
        /\ filters.requireTwoPlus =>
               \A p \in 1..Len(T) :
                   Cardinality(KeysIn(F, RowsOfGroup(F, T[p].key))) >= 2
        /\ ~filters.requireTwoPlus =>
               \A g \in 1..Len(A) :
                   (/\ Cardinality(KeysIn(F, RowsOfGroup(F, A[g].key))) = 1
                    /\ (filters.size # <<"A","n","y">> =>
                            A[g].size_final = filters.size))
                       => \E p \in 1..Len(T) : T[p] = A[g]

\* The requirement was switched off and a team with one competition is
\* ranked beside a team with two.
C8_Witness ==
    /\ ~filters.requireTwoPlus
    /\ LET T == teamRankings
       IN  \E p, q \in 1..Len(T) : T[p].comps = 1 /\ T[q].comps >= 2

\* x.avg >= y.avg on the exact fractions.
AvgAtLeast(x, y) == x.avg.num * y.avg.den >= y.avg.num * x.avg.den

\* C9: the ranking is ordered by average, non-increasing, and the rank shown
\* for a team is its 1-based position in that order (consecutive, also among
\* equal averages).
C9_OrderedByAvgWithDenseRank ==
    LET T == teamRankings
        top == tableTop20
        ranks == tableRanks
    IN  /\ \A p, q \in 1..Len(T) : p < q => AvgAtLeast(T[p], T[q])
        /\ \A p \in 1..Len(top) : ranks[p] = p /\ top[p] = T[p]

\* With the minimum lowered to 1, a team with a single competition and the
\* higher average is rank 1 ahead of a team with two competitions, although
\* its rows come later in the input.
C9_Witness ==
    /\ ~filters.requireTwoPlus
    /\ LET T == teamRankings
       IN  /\ Len(T) = 2
           /\ T[1].comps = 1
           /\ T[2].comps = 2
           /\ ~AvgAtLeast(T[2], T[1])
           /\ allTeamRows[1] = T[2]
           /\ tableRanks = <<1, 2>>

\* The rows of one team identity and one track.
RowsOfTeamTrack(F, id, tr) ==
    {i \in RankedRows(F) : F[i].identity = id /\ F[i].track = tr}

\* C10: rows of one team identity but different tracks never contribute to
\* the same ranking row: the ranking has at most one row per (team identity,
\* track), and each row's average, competition count and resolved size come
\* from the rows of that track alone.
C10_TracksAggregatedSeparately ==
    LET F == RowFacts
        T == teamRankings
    IN  /\ \A p, q \in 1..Len(T) : T[p].key = T[q].key => p = q
        /\ \A p \in 1..Len(T) :
               \E i \in RankedRows(F) :
                   LET S == RowsOfTeamTrack(F, F[i].identity, F[i].track)
                   IN  /\ RowsOfGroup(F, T[p].key) = S
                       /\ T[p].comps = Cardinality(KeysIn(F, S))
                       /\ AvgIsMeanOfBest(T[p], F, S)
                       /\ SizeIsLatestKnown(T[p].size_final, F, S)

\* One team is ranked in two tracks, with different averages.
C10_Witness ==
    LET F == RowFacts
        T == teamRankings
    IN  \E p, q \in 1..Len(T) :
            \E i \in RowsOfGroup(F, T[p].key) :
                \E j \in RowsOfGroup(F, T[q].key) :
                    /\ F[i].identity = F[j].identity
                    /\ F[i].track # F[j].track
                    /\ T[p].avg # T[q].avg

Droppable(fact) == fact.noParts \/ fact.program = <<>> \/ fact.team = <<>>

NotDroppable(r) == ~Droppable(FactOfRow[r])

RECURSIVE historyCount(_)
historyCount(map) ==
    IF map = <<>> THEN 0
    ELSE Len(Head(map).rowsByWeekendDesc) + historyCount(Tail(map))

\* C12: a row with an empty track (no level, no age, not flex, not D2) or
\* with a program or team name missing or blank after trimming is dropped:
\* the groups and the ranking are those of the input without such rows, no
\* group carries their key, and no size history holds an entry of theirs.
C12_UnusableRowsDropped ==
    LET F == RowFacts
        G == groups
        kept == SelectSeq(filteredRows, NotDroppable)
    IN  /\ G = aggregate(<<>>, kept)
        /\ teamRankings = teamRankingsOf(kept, filters)
        /\ historyCount(G) = Len(kept)
        /\ \A g \in 1..Len(G) :
               \E i \in 1..Len(F) : ~Droppable(F[i]) /\ F[i].group = G[g].key

\* A row that carries the team_id and the track of a ranked team but no team
\* name is dropped beside a row of that team: the group has one row.
C12_Witness ==
    LET F == RowFacts
        G == groups
    IN  \E i, j \in 1..Len(F) :
            /\ F[i].team = <<>>
            /\ ~F[i].noParts
            /\ ~Droppable(F[j])
            /\ F[i].identity = F[j].identity
            /\ F[i].track = F[j].track
            /\ Len(G) = 1
            /\ Len(G[1].rowsByWeekendDesc) = 1

\* C13: the competition key of a row stands for its event identifier when
\* it has a usable one, else for its source URL, else for its event name and
\* weekend; two rows have the same key exactly when they have the same tier
\* and agree on its value, so keys of different tiers are never equal, and a
\* group counts one competition per (tier, value).
C13_CompetitionKeyTiers ==
    LET F == RowFacts
        G == groups
        A == allTeamRows
    IN  /\ \A i, j \in 1..Len(F) :
               (F[i].comp = F[j].comp) <=> (F[i].compId = F[j].compId)
        /\ \A g \in 1..Len(G) :
               A[g].comps =
                   Cardinality({F[i].compId : i \in RowsOfGroup(F, G[g].key)})

\* A team has one row identified by an event id and one identified by a
\* source URL of the same text: two competitions.
C13_Witness ==
    LET F == RowFacts
        G == groups
        A == allTeamRows
    IN  \E g \in 1..Len(G) :
            \E i, j \in RowsOfGroup(F, G[g].key) :
                /\ F[i].compId.tier = "event"
                /\ F[j].compId.tier = "url"
                /\ F[i].compId.value = F[j].compId.value
                /\ A[g].comps = 2

\* C14: two ranked rows fall in the same group exactly when they have the
\* same track and the same team: the same usable team_id whatever their
\* program and team names, or, without a team_id, the same program
\* (program_id if usable, else the program name up to case and whitespace)
\* and the same team name up to case and whitespace.
C14_TeamIdentity ==
    LET F == RowFacts
        G == groups
    IN  /\ \A i, j \in RankedRows(F) :
               (F[i].group = F[j].group)
                   <=> (F[i].teamId = F[j].teamId /\ F[i].track = F[j].track)
        /\ \A g \in 1..Len(G) :
               Len(G[g].rowsByWeekendDesc) = Cardinality(RowsOfGroup(F, G[g].key))

\* Two rows without a team_id whose names differ in case and spacing are
\* one group of two rows.
C14_Witness ==
    LET F == RowFacts
        G == groups
    IN  /\ Len(G) = 1
        /\ Len(G[1].rowsByWeekendDesc) = 2
        /\ \E i, j \in RankedRows(F) :
               /\ F[i].teamId.by = "names"
               /\ F[i].team # F[j].team \/ F[i].program # F[j].program

\* The bucket the claim describes for a team row whose rows have the track tr.
BucketIs(t, tr) ==
    /\ t.size_final # Null => t.bucket = tr \o << " " >> \o t.size_final
    /\ t.size_final = Null => t.bucket = tr
    /\ ~includes(toLowerCase(t.bucket), <<"u","n","k","n","o","w","n">>)

\* C15: the bucket of a ranking row is the track label of its rows followed
\* by a space and the resolved size when the size is resolved, and exactly
\* the track label when it is not; no placeholder such as "Unknown" appears.
C15_BucketIsTrackAndSize ==
    LET F == RowFacts
        A == allTeamRows
        T == teamRankings
    IN  /\ \A g \in 1..Len(A) :
               \A i \in RowsOfGroup(F, A[g].key) : BucketIs(A[g], F[i].track)
        /\ \A p \in 1..Len(T) : \E g \in 1..Len(A) : T[p] = A[g]

\* The ranking holds a team of resolved size beside a team of which no row
\* has a size.
C15_Witness ==
    LET T == teamRankings
    IN  \E p, q \in 1..Len(T) :
            /\ T[p].size_final # Null
            /\ T[p].bucket # T[q].bucket
            /\ T[q].size_final = Null
            /\ T[q].bucket = <<"L","3"," ","J","u","n","i","o","r">>

\* The position in the input of the first row of a group.
FirstRowOf(F, k) ==
    CHOOSE i \in RowsOfGroup(F, k) : \A j \in RowsOfGroup(F, k) : i <= j

\* C16: of two teams of the ranking with equal average, the one whose first
\* row comes earlier in the input is ranked ahead.
C16_TiesKeepInputOrder ==
    LET F == RowFacts
        T == teamRankings
    IN  \A p, q \in 1..Len(T) :
            (p < q /\ AvgAtLeast(T[q], T[p]) /\ AvgAtLeast(T[p], T[q]))
                => FirstRowOf(F, T[p].key) < FirstRowOf(F, T[q].key)

\* Two teams tie; the one ranked first comes later in the alphabet and first
\* in the input.
C16_Witness ==
    LET F == RowFacts
        T == teamRankings
    IN  /\ Len(T) = 2
        /\ T[1].avg = T[2].avg
        /\ T[1].team = <<"B","e","t","a">>
        /\ T[2].team = <<"A","l","p","h","a">>
        /\ FirstRowOf(F, T[1].key) < FirstRowOf(F, T[2].key)

\* Whether a team row passes the team-level filters.
PassesTeamFilters(t, f) ==
    /\ f.requireTwoPlus => t.comps >= 2
    /\ f.size # <<"A","n","y">> => t.size_final = f.size

Least(a, b) == IF a < b THEN a ELSE b

\* C17: the ranking holds every team that passes the team-level filters,
\* ordered by average; the table is its first 20 rows and the chart its
\* first 10, in the same order, each chart entry carrying the team's name
\* as label and its average as value.
C17_ChartAndTableArePrefixes ==
    LET A == allTeamRows
        T == teamRankings
        top == tableTop20
        chart == chartTop10
    IN  /\ Len(T) = Cardinality({g \in 1..Len(A) : PassesTeamFilters(A[g], filters)})
        /\ \A p, q \in 1..Len(T) : p < q => AvgAtLeast(T[p], T[q])
        /\ Len(top) = Least(Len(T), 20)
        /\ \A p \in 1..Len(top) : top[p] = T[p]
        /\ Len(chart) = Least(Len(T), 10)
        /\ \A p \in 1..Len(chart) :
               /\ chart[p].key = top[p].key
               /\ chart[p].label = top[p].team
               /\ chart[p].value = top[p].avg

\* More than 20 teams pass the filters, and the best of them comes from one
\* of the last rows of the input: the table holds 20 and the chart 10.
C17_Witness ==
    LET F == RowFacts
        T == teamRankings
    IN  /\ Len(T) > 20
        /\ Len(tableTop20) = 20
        /\ Len(chartTop10) = 10
        /\ \E i \in RowsOfGroup(F, T[1].key) : i > 25

\* The candidate lists and fallbacks the page calls pick with.
CandidateLists ==
    {programKeys, teamKeys, eventScoreKeys, eventNameKeys, eventIdKeys,
     weekendKeys, sourceUrlKeys, <<"division">>, <<"size", "size_bucket">>}

Fallbacks == {<<>>, <<"0">>}

\* C18: pick returns the value of the first candidate column, in list order,
\* that is present, non-null and non-blank after trimming, and the fallback
\* when there is none; a later usable column is never preferred.
C18_PickFirstUsable ==
    \A i \in 1..Len(rows) :
        \A keys \in CandidateLists :
            \A fb \in Fallbacks :
                /\ pick(rows[i], keys, fb) = FirstUsable(rows[i], keys, fb)
                /\ \A k \in 1..Len(keys) :
                       (Usable(rows[i], keys[k])
                        /\ \A j \in 1..(k - 1) : ~Usable(rows[i], keys[j]))
                           => pick(rows[i], keys, fb) = rows[i][keys[k]]

\* A row with two usable program columns of different text, a null team
\* column before a usable one, and no event name column at all.
C18_Witness ==
    \E i \in 1..Len(rows) :
        LET r == rows[i]
        IN  /\ Usable(r, "program") /\ Usable(r, "program_name")
            /\ r["program"] # r["program_name"]
            /\ pick(r, programKeys, <<>>) = r["program"]
            /\ "team" \in DOMAIN r /\ r["team"] = Null
            /\ pick(r, teamKeys, <<>>) = r["team_name"]
            /\ pick(r, eventNameKeys, <<"0">>) = <<"0">>

\* a and b with one space between them when both are there.
Spaced(a, b) == IF a # <<>> /\ b # <<>> THEN a \o << " " >> \o b ELSE a \o b

\* The track label the claim describes for a meta.
ClaimedTrack(m) ==
    Spaced(Spaced(Spaced(IF Truthy(m.level) THEN m.level ELSE <<>>,
                         IF Truthy(m.age) THEN m.age ELSE <<>>),
                  IF m.isFlex THEN <<"F","l","e","x">> ELSE <<>>),
           IF m.isD2 THEN <<"D","2">> ELSE <<>>)

\* C19: the track label is the present parts among level, age, "Flex" and
\* "D2", in that order, joined by single spaces; it is empty exactly when no
\* part is present, and it is the same whatever the size.
C19_TrackLabelParts ==
    \A i \in 1..Len(rows) :
        LET m == parseMeta(rows[i])
        IN  /\ buildTrackKey(m) = ClaimedTrack(m)
            /\ (buildTrackKey(m) = <<>>)
                   <=> (~Truthy(m.level) /\ ~Truthy(m.age) /\ ~m.isFlex /\ ~m.isD2)
            /\ \A s \in SizeOpts \cup {Null} :
                   buildTrackKey([m EXCEPT !.size = s]) = buildTrackKey(m)

\* A division that names D2 and Flex before the age: the label has the four
\* parts in the fixed order.
C19_Witness ==
    \E i \in 1..Len(rows) :
        LET m == parseMeta(rows[i])
        IN  /\ m.division = <<"L","3"," ","D","2"," ","F","l","e","x"," ","J","u","n","i","o","r">>
            /\ buildTrackKey(m) = <<"L","3"," ","J","u","n","i","o","r"," ","F","l","e","x"," ","D","2">>

\* Whether the text d holds w as a separate word: an occurrence of w that
\* neither follows nor precedes a word character.
HasWord(d, w) ==
    \E i \in 0..(Len(d) - Len(w)) :
        /\ SubSeq(d, i + 1, i + Len(w)) = w
        /\ (i = 0 \/ ~IsWordChar(d[i]))
        /\ (i + Len(w) = Len(d) \/ ~IsWordChar(d[i + Len(w) + 1]))

\* C20: a row without the structured is_d2 / is_flex columns is flagged D2
\* exactly when its division text holds "d2" as a separate word (also at the
\* start or as the whole text, not as the tail of a longer word), and Flex
\* exactly when it holds "flex" as a separate word (also at the start, not
\* as the prefix of a longer word).
C20_FlagsAreSeparateWords ==
    \A i \in 1..Len(rows) :
        LET m == parseMeta(rows[i])
            d == normalize(m.division)
        IN  /\ Get(rows[i], "is_d2") = Null => (m.isD2 <=> HasWord(d, <<"d","2">>))
            /\ Get(rows[i], "is_flex") = Null => (m.isFlex <=> HasWord(d, <<"f","l","e","x">>))

\* No response to the latest run of the fetch effect has arrived.
CurrentUnresolved == \A k \in 1..Len(arrivals) : arrivals[k].id # Len(reqs)

\* C27: loading is true exactly while the request for the current
\* level/search filters is unresolved (a change of them sets it, a discarded
\* stale response does not clear it), and once the current request resolves,
\* with data or with an error value, loading is false.
C27_LoadingWhileCurrentUnresolved ==
    /\ [](loading <=> CurrentUnresolved)
    /\ (loading ~> ~loading)

\* A stale response was discarded while the current request was pending,
\* then the current request resolved.
C27_Witness ==
    /\ ~loading
    /\ \E j, k \in 1..Len(arrivals) :
           /\ j < k
           /\ ~arrivals[j].applied
           /\ arrivals[j].latest = arrivals[k].id
           /\ arrivals[k].applied

\* C29: for the loaded rows, a team that is in the ranking both with the
\* current search text and with an empty one has the same avg and comps in
\* both.
C29_SearchKeepsAverages ==
    LET T == teamRankings
        base == teamRankingsOf(
                    filteredRowsOf(rows, [filters EXCEPT !.search = <<>>]), filters)
    IN  \A p \in 1..Len(T) :
            \A q \in 1..Len(base) :
                T[p].key = base[q].key
                    => T[p].avg = base[q].avg /\ T[p].comps = base[q].comps

\* The rows as filtered with both flag filters set to Any.
RowFactsAnyFlags ==
    factsOf(filteredRowsOf(rows, [filters EXCEPT !.d2Mode = "Any", !.flexMode = "Any"]))

\* C30: with FlexOnly every team of the ranking has "Flex" in its track and
\* with NonFlexOnly none has, with D2Only every team has "D2" in its track and
\* with NonD2Only none has; of every group of the rows, the flag filters keep
\* all the rows or none.
C30_FlagFiltersKeepWholeGroups ==
    LET T == teamRankings
        F == RowFacts
        A == RowFactsAnyFlags
    IN  /\ \A p \in 1..Len(T) :
               /\ filters.flexMode = "FlexOnly" => HasWord(T[p].bucket, <<"F","l","e","x">>)
               /\ filters.flexMode = "NonFlexOnly" => ~HasWord(T[p].bucket, <<"F","l","e","x">>)
               /\ filters.d2Mode = "D2Only" => HasWord(T[p].bucket, <<"D","2">>)
               /\ filters.d2Mode = "NonD2Only" => ~HasWord(T[p].bucket, <<"D","2">>)
        /\ \A i \in RankedRows(A) :
               LET k == A[i].group
               IN  \/ RowsOfGroup(F, k) = {}
                   \/ Cardinality(RowsOfGroup(F, k)) = Cardinality(RowsOfGroup(A, k))

\* FlexOnly over three rows: the Flex group of two rows (one flagged by its
\* division text, one by the structured column) is ranked with both its
\* competitions, and the row of the plain track is gone.
C30_Witness ==
    LET T == teamRankings
    IN  /\ filters.flexMode = "FlexOnly"
        /\ Len(rows) = 3
        /\ Len(filteredRows) = 2
        /\ \E i, j \in 1..Len(filteredRows) :
               /\ "is_flex" \in DOMAIN filteredRows[i]
               /\ "is_flex" \notin DOMAIN filteredRows[j]
        /\ Len(T) = 1
        /\ T[1].comps = 2
        /\ HasWord(T[1].bucket, <<"F","l","e","x">>)

\* ------------------------------------------------------------ results explorer
\* The team of a row as C21 and C22 name it (stable team key, normalized
\* team name and track) is the row's sizeMapKey.  The rows of the filtered
\* list that name a program, a team and a track:
ExplorerNamed(F) ==
    {i \in 1..Len(F) :
        LET x == ExplorerReads[F[i]]
        IN  x.program # <<>> /\ x.team # <<>> /\ x.track # <<>>}

\* What the season's rows in the store say about a row's team: the team key,
\* the size and the weekend as the size-history query returns them.
SeasonFactOf ==
    [r \in ExplorerRows |->
        [key |-> ExplorerReads[r].sizeMapKey,
         size |-> parseMeta(projectRow(r)).size,
         weekend |-> trim(weekendDateOf(r)),
         inSeason |-> inSeason(r)]]

\* size is the size of a most recent row of the season, among the rows of
\* the team `key` that have a size; null iff there is none.
SeasonSizeIs(size, store, key) ==
    LET Z == {i \in 1..Len(store) :
                 /\ SeasonFactOf[store[i]].inSeason
                 /\ SeasonFactOf[store[i]].key = key
                 /\ Truthy(SeasonFactOf[store[i]].size)}
    IN  /\ (size = Null) <=> (Z = {})
        /\ Z # {} =>
               \E i \in Z :
                   /\ SeasonFactOf[store[i]].size = size
                   /\ \A j \in Z :
                          localeCompare(SeasonFactOf[store[j]].weekend,
                                        SeasonFactOf[store[i]].weekend) <= 0

KnownSizes == {Null, <<"X","-","S","m","a","l","l">>, <<"S","m","a","l","l">>, <<"M","e","d","i","u","m">>, <<"L","a","r","g","e">>, <<"X","-","L","a","r","g","e">>}

\* The size filter lets the size s through.
SizeFilterPasses(s) ==
    explorer.size = <<"A","n","y">> \/ (s # Null /\ normalize(s) = normalize(explorer.size))

\* C21: of the rows that pass the filters, every team (team name and track
\* told apart, also without a team_id and within one program) with a row at
\* a competition has a display row of its own at that competition, and that
\* row carries the team's maximum score there.
C21_OneRowPerTeamPerCompetition ==
    LET D == derived
        F == explorerFiltered(explorer)
        N == {i \in ExplorerNamed(F) :
                 SizeFilterPasses(finalSizeOf(explorer.teamFinalSizeMap,
                                              ExplorerReads[F[i]].sizeMapKey))}
    IN  \A i \in N :
            LET x == ExplorerReads[F[i]]
                S == {j \in N : /\ ExplorerReads[F[j]].sizeMapKey = x.sizeMapKey
                                /\ ExplorerReads[F[j]].compKey = x.compKey}
                P == {p \in 1..Len(D) :
                         /\ ExplorerReads[D[p].row].sizeMapKey = x.sizeMapKey
                         /\ ExplorerReads[D[p].row].compKey = x.compKey}
            IN  /\ Cardinality(P) = 1
                /\ \A p \in P : \A j \in S : ExplorerReads[F[j]].score <= D[p].score

\* C22: once the size history has loaded, whatever selection loaded the
\* rows, the bucket of a display row is its track with the season-wide size
\* of its team (the track alone when the team has none), under a concrete
\* size filter only rows of teams of that season-wide size are displayed,
\* and every team of that size keeps its place in the display.
C22_SeasonSizeDecides ==
    LET D == derived
        F == explorerFiltered(explorer)
    IN  explorer.sizeLoad = "loaded" =>
            /\ \A p \in 1..Len(D) :
                   LET x == ExplorerReads[D[p].row]
                   IN  \E s \in KnownSizes :
                           /\ SeasonSizeIs(s, explorer.store, x.sizeMapKey)
                           /\ D[p].bucket = Spaced(x.track, Str(s))
                           /\ SizeFilterPasses(s)
            /\ \A i \in ExplorerNamed(F) :
                   LET x == ExplorerReads[F[i]]
                   IN  (\E s \in KnownSizes :
                            /\ SeasonSizeIs(s, explorer.store, x.sizeMapKey)
                            /\ SizeFilterPasses(s))
                           => \E p \in 1..Len(D) : D[p].key = x.key

\* The weekend of January is selected and the size filter is Small: the row
\* of team Beta that carries no size is displayed in the bucket of the
\* team's season-wide size.
C22_Witness ==
    LET D == derived
    IN  /\ explorer.sizeLoad = "loaded"
        /\ explorer.weekendDate = <<"2","0","2","6","-","0","1","-","1","0">>
        /\ explorer.size = <<"S","m","a","l","l">>
        /\ ~explorer.rowsPending
        /\ \E p \in 1..Len(D) :
               /\ D[p].row = exBetaJan
               /\ D[p].bucket = <<"L","3"," ","J","u","n","i","o","r"," ","S","m","a","l","l">>

\* C23: after a failed size-history load the size map is empty, with the
\* size filter Any every named row keeps a display row and every bucket is
\* the track alone, with a concrete size filter nothing is displayed; and
\* the failure leaves error, loading and rows as they were.
C23_SizeHistoryFailureIsSoft ==
    /\ [](LET D == derived
              F == explorerFiltered(explorer)
          IN  explorer.sizeLoad = "failed" =>
                  /\ explorer.teamFinalSizeMap = <<>>
                  /\ explorer.size = <<"A","n","y">> =>
                         /\ \A p \in 1..Len(D) :
                                D[p].bucket = ExplorerReads[D[p].row].track
                         /\ \A i \in ExplorerNamed(F) :
                                \E p \in 1..Len(D) : D[p].key = ExplorerReads[F[i]].key
                  /\ explorer.size # <<"A","n","y">> => D = <<>>)
    /\ [][(explorer.sizeLoad = "pending" /\ explorer'.sizeLoad = "failed")
              => /\ explorer'.error = explorer.error
                 /\ explorer'.loading = explorer.loading
                 /\ explorer'.rows = explorer.rows]_vars

\* The size history failed, the rows loaded: no error, rows on display in
\* the bucket of their track.
C23_Witness ==
    LET D == derived
    IN  /\ explorer.sizeLoad = "failed"
        /\ explorer.size = <<"A","n","y">>
        /\ explorer.error = Null
        /\ ~explorer.loading
        /\ \E p \in 1..Len(D) :
               /\ D[p].row = exBetaFeb
               /\ D[p].bucket = <<"L","3"," ","J","u","n","i","o","r">>

\* ------------------------------------------------------------ team search page
\* The weekends of the rows of team id in the data.
WeeksOf(data, id) ==
    {Get(data[i], "weekend_date") : i \in {j \in 1..Len(data) : Get(data[j], "team_id") = id}}
        \ {Null, <<>>}

\* w is the least (sign = -1) or greatest (sign = 1) of the weekends W, null
\* when there is none.
ExtremeWeek(w, W, sign) ==
    IF W = {} THEN w = Null
    ELSE w \in W /\ \A v \in W : sign * localeCompare(v, w) <= 0

\* The hit list H is the one the claim describes for the rows `data`.
HitsDescribe(H, data) ==
    /\ \A p, q \in 1..Len(H) : p # q => H[p].team_id # H[q].team_id
    /\ {H[p].team_id : p \in 1..Len(H)} = {Get(data[i], "team_id") : i \in 1..Len(data)}
    /\ \A p \in 1..Len(H) :
           /\ H[p].rows = Cardinality({i \in 1..Len(data) : Get(data[i], "team_id") = H[p].team_id})
           /\ ExtremeWeek(H[p].first_week, WeeksOf(data, H[p].team_id), -1)
           /\ ExtremeWeek(H[p].last_week, WeeksOf(data, H[p].team_id), 1)
    /\ \A p, q \in 1..Len(H) :
           p < q =>
               LET c == localeCompare(Str(H[p].last_week), Str(H[q].last_week))
               IN  c > 0 \/ (c = 0 /\ H[p].rows >= H[q].rows)

\* C24: a run of the effect fetches exactly when its trimmed query has two
\* characters or more, and the hit list is empty while the query is shorter;
\* a response is applied only when it answers the latest run; the hit list
\* holds one entry per team_id of the rows it was written from, with the row
\* count and the least and greatest non-null weekend of the team, ordered by
\* last_week descending, then by row count descending.
C24_HitsAnswerTheCurrentQuery ==
    LET ts == teamSearch
    IN  /\ \A i \in 1..Len(ts.runs) : ts.runs[i].fetched <=> Len(ts.runs[i].q) >= 2
        /\ Len(searchText(ts.query)) < 2 => ts.hits = <<>>
        /\ \A k \in 1..Len(ts.arrivals) :
               ts.arrivals[k].applied => ts.arrivals[k].run = ts.arrivals[k].latest
        /\ HitsDescribe(ts.hits, ts.source.data)

\* The response to an abandoned search was dropped, then the current one
\* was applied: two teams of the same last week, the one with two rows
\* first, its weeks spanning January to February.
C24_Witness ==
    LET ts == teamSearch
    IN  /\ \E j, k \in 1..Len(ts.arrivals) :
               j < k /\ ~ts.arrivals[j].applied /\ ts.arrivals[k].applied
        /\ Len(ts.hits) = 2
        /\ ts.hits[1].rows = 2
        /\ ts.hits[2].rows = 1
        /\ ts.hits[1].last_week = ts.hits[2].last_week
        /\ ts.hits[1].first_week = <<"2","0","2","6","-","0","1","-","1","0">>
        /\ ts.hits[1].last_week = <<"2","0","2","6","-","0","2","-","0","7">>
        /\ ts.source.data[1] = TeamSearchRow(<<"T","2">>, <<"A","l","t","o","s">>, <<"2","0","2","6","-","0","2","-","0","7">>)

\* The latest run of the effect fetched and its response has not arrived.
SearchInFlight ==
    LET ts == teamSearch
    IN  /\ ts.runs[Len(ts.runs)].fetched
        /\ \A k \in 1..Len(ts.arrivals) : ts.arrivals[k].run # Len(ts.runs)

\* C28: loading is false whenever no request for the current query is in
\* flight, also after the query was shortened below two characters while a
\* search was pending.
C28_LoadingOnlyWhileSearching == teamSearch.loading => SearchInFlight

\* ------------------------------------------------------------ comp-builder gate
\* The text is an email for the gate: not empty after trimming, with an "@".
GateAccepts(text) ==
    LET email == trim(text)
    IN  email # <<>> /\ \E i \in 1..Len(email) : email[i] = "@"

\* What every call of unlock ends with, but for the value in local storage.
UnlockEnds ==
    LET a == gate.attempt
    IN  a.email # Null =>
            /\ ~GateAccepts(a.email) =>
                   /\ ~gate.unlocked
                   /\ gate.status = "error"
                   /\ gate.pending = Null
                   /\ gate.stored = a.stored
                   /\ gate.waitlist = a.waitlist
            /\ (GateAccepts(a.email) /\ gate.pending = Null) =>
                   /\ gate.unlocked
                   /\ a.outcome = "failed" => gate.status = "error"
                   /\ a.outcome = "duplicate" => gate.status = "idle"
                   /\ a.outcome \in {"failed", "duplicate"} => gate.waitlist = a.waitlist

Lacks(params, name) == name \notin DOMAIN params \/ params[name] = <<>>

\* C26: a request without division or size_effective (absent or empty) or
\* without is_flex or is_d2 (absent) is answered 400 and the procedure is
\* not called; any other request calls the procedure once, with min_events
\* 2 unless given and limit 200, and is answered 500 with the message of a
\* store error, else 200 with the rows (an empty list for null).
C26_RouteValidatesThenCallsOnce ==
    LET p == route.params
        rejected == \/ Lacks(p, "division")
                    \/ Lacks(p, "size_effective")
                    \/ "is_flex" \notin DOMAIN p
                    \/ "is_d2" \notin DOMAIN p
    IN  route.phase # "idle" =>
            IF rejected
            THEN /\ route.phase = "done"
                 /\ route.response.status = 400
                 /\ route.calls = <<>>
            ELSE /\ Len(route.calls) = 1
                 /\ route.calls[1].p_limit = 200
                 /\ "min_events" \notin DOMAIN p => route.calls[1].p_min_events = 2
                 /\ route.phase = "done" =>
                        IF route.answer.error # Null
                        THEN /\ route.response.status = 500
                             /\ route.response.body.error = route.answer.error
                        ELSE /\ route.response.status = 200
                             /\ route.response.body.rows =
                                    IF route.answer.data = Null THEN <<>>
                                    ELSE route.answer.data

\* A request with empty is_flex and no min_events, answered with null data:
\* one call with min_events 2, status 200 with an empty list.
C26_Witness ==
    /\ route.phase = "done"
    /\ "min_events" \notin DOMAIN route.params
    /\ Get(route.params, "is_flex") = <<>>
    /\ Len(route.calls) = 1
    /\ route.calls[1].p_min_events = 2
    /\ ~route.calls[1].p_is_flex
    /\ route.answer.data = Null
    /\ route.response.status = 200
    /\ route.response.body.rows = <<>>

====
